---- MODULE Spec2Model ----
(***************************************************************************)
(* Model of the monitoring control loop of the fraud-detection platform:   *)
(*   backend/app/services/ab_testing_service.py   (ABTestingService)       *)
(*   backend/app/services/alert_service.py        (AlertService)           *)
(*   backend/app/services/retraining_service.py   (RetrainingPipeline)     *)
(*   backend/app/workers/scheduler.py              (JobScheduler)           *)
(*                                                                         *)
(* Conventions.  An Optional[x] of the source is a sequence of length at   *)
(* most one: None is << >> and a present value x is << x >>.  uuid4() is a  *)
(* fresh identifier: the least number not yet used as a key of the         *)
(* dictionary.  datetime.utcnow() is the variable now, counted in ticks    *)
(* (TicksPerHour of them make an hour).  Floats are scaled integers:       *)
(* metrics and the improvement threshold in hundredths, progress in tenths.*)
(*                                                                         *)
(* All services run on one asyncio event loop.  A synchronous method, and  *)
(* a coroutine between two awaits that really suspend, is one atomic       *)
(* action.  `await coro()` of a coroutine that never suspends does not     *)
(* yield the loop.                                                         *)
(***************************************************************************)
EXTENDS Integers, Sequences, FiniteSets, TLC

VARIABLES
    now,            \* datetime.utcnow(), in ticks
    tests,          \* ABTestingService._tests : id -> ABTest
    activeTest,     \* ABTestingService._active_test : Optional[id]
    abLast,         \* the last ABTestingService call and its outcome
    alerts,         \* AlertService._alerts : id -> Alert
    alertPc,        \* per caller task of create_alert: "idle", "pending", "done"
    alertData,      \* per caller task: the AlertCreate it passed
    alertRet,       \* per caller task: the Alert create_alert returned
    alertOverlap,   \* per caller task (history): another create_alert call with the
                    \* same key was in flight while this one was
    alertLast,      \* the last acknowledge_alert / resolve_alert call and its outcome
    jobs,           \* RetrainingPipeline._jobs : id -> RetrainJob
    runPc,          \* per run_pipeline call: the await it is suspended at
    runJob,         \* per run_pipeline call: the job_id it was given
    runRet,         \* per run_pipeline call: what the call returned or raised, and
                    \* the exception its except clause caught
    monitor,        \* the drift, performance and bias status the monitors last reported
    decision,       \* the last should_retrain call: its arguments and what it returned
    schedJobs,      \* JobScheduler._jobs : id -> ScheduledJob
    schedRuns,      \* JobScheduler._runs : id -> JobRun
    callPc,         \* per run_job call: "idle", "handler" (awaiting it), "returned"
    callRun,        \* per run_job call: the id of the JobRun it created
    callRet,        \* per run_job call: what the call returned or raised
    baselines,      \* the baselines table: the committed rows, in stored order
    setPc,          \* per set_baselines call: "idle", "delete" (DELETE sent),
                    \* "deleted" (DELETE returned), "done", "failed"
    setTx,          \* per set_baselines call: its arguments and its transaction
    checkRet,       \* the last check_baselines call: its arguments and its results
    driftRet,       \* the last run_drift_check call: what it returned or raised
    biasRet,        \* the last _compute_attribute_bias call: the BiasResult
    fairRet         \* the last mitigate_bias call: what it returned or raised

abVars == <<tests, activeTest, abLast>>
alertVars == <<alerts, alertPc, alertData, alertRet, alertOverlap, alertLast>>
retrainVars == <<jobs, runPc, runJob, runRet>>
decideVars == <<monitor, decision>>
schedVars == <<schedJobs, schedRuns, callPc, callRun, callRet>>
monitoringVars == <<baselines, setPc, setTx, checkRet, driftRet, biasRet, fairRet>>
vars == <<now, abVars, alertVars, retrainVars, decideVars, schedVars, monitoringVars>>

\* ---------------------------------------------------------------- bounds
MaxTime == 1
MaxTests == 2
MaxSamples == 2
MaxAlerts == 2
MaxJobs == 1
MaxSchedJobs == 1
MaxRuns == 2

\* ---------------------------------------------------------------- common
None == << >>
Some(x) == << x >>

\* uuid4(): a key not yet in the dictionary
FreshId(used, max) == CHOOSE i \in (1..max) \ used : \A j \in (1..max) \ used : i <= j

Extend(f, k, v) == [x \in DOMAIN f \cup {k} |-> IF x = k THEN v ELSE f[x]]

\* time passes.  Only the alert service reads the clock to decide anything;
\* the other two services only stamp records with it
Tick ==
    /\ now < MaxTime
    /\ now' = now + 1
    /\ UNCHANGED <<abVars, alertVars, retrainVars, decideVars, schedVars, monitoringVars>>

\* ============================================================ A/B testing
\* ABTestStatus, ABTestResult (ab_testing_service.py)
ABTestStatus == {"DRAFT", "RUNNING", "PAUSED", "COMPLETED", "ABORTED"}
ABTestResult == {"PENDING", "CHALLENGER_WINS", "CHAMPION_WINS", "NO_SIGNIFICANT_DIFFERENCE"}

TestIds == 1..MaxTests

\* the results the callers of conclude_test pass
ConcludeResults == {"CHALLENGER_WINS", "NO_SIGNIFICANT_DIFFERENCE"}

\* ABTestConfig values the callers pass (defaults except where varied)
ABTestConfig ==
    { [challenger_traffic_percent |-> 20, min_samples |-> 2, primary_metric |-> "f1"] }

\* values of random.random() * 100 in route_request
RandomDraws == {10, 20}

\* the samples routed so far, over all tests
TotalSamples ==
    LET RECURSIVE Sum(_)
        Sum(S) == IF S = {} THEN 0
                  ELSE LET t == CHOOSE x \in S : TRUE
                       IN tests[t].champion_samples + tests[t].challenger_samples + Sum(S \ {t})
    IN Sum(DOMAIN tests)

\* the mock metrics evaluate_test assigns, in hundredths
ChampionMetrics == [f1 |-> 88, precision |-> 90, recall |-> 86, auc |-> 94]
ChallengerMetrics == [f1 |-> 91, precision |-> 92, recall |-> 89, auc |-> 96]

SignificanceFloor == 500

NotFound == "ValueError: Test not found"
AnotherRunning == "ValueError: Another test is already running"

ABCall(op, id, out) == [op |-> op, id |-> id, out |-> out]

\* create_test
CreateTest(config) ==
    /\ DOMAIN tests # TestIds
    /\ LET id == FreshId(DOMAIN tests, MaxTests)
           test == [ config |-> config,
                     status |-> "DRAFT",
                     result |-> "PENDING",
                     started_at |-> None,
                     ended_at |-> None,
                     champion_samples |-> 0,
                     challenger_samples |-> 0,
                     champion_metrics |-> None,
                     challenger_metrics |-> None,
                     statistical_analysis |-> None ]
       IN /\ tests' = Extend(tests, id, test)
          /\ abLast' = ABCall("create_test", Some(id), "ok")
    /\ UNCHANGED <<activeTest, now, alertVars, retrainVars, decideVars, schedVars, monitoringVars>>

\* mutant: start_test stamps started_at before it looks at the active-test slot
StartTestStampsFirst(test_id) ==
    /\ IF test_id \notin DOMAIN tests
         THEN /\ abLast' = ABCall("start_test", Some(test_id), NotFound)
              /\ UNCHANGED <<tests, activeTest>>
         ELSE IF activeTest # None /\ activeTest # Some(test_id)
         THEN /\ tests' = [tests EXCEPT ![test_id].started_at = Some(now)]
              /\ abLast' = ABCall("start_test", Some(test_id), AnotherRunning)
              /\ UNCHANGED activeTest
         ELSE /\ tests' = [tests EXCEPT ![test_id].status = "RUNNING",
                                         ![test_id].started_at = Some(now)]
              /\ activeTest' = Some(test_id)
              /\ abLast' = ABCall("start_test", Some(test_id), "ok")
    /\ UNCHANGED <<now, alertVars, retrainVars, decideVars, schedVars, monitoringVars>>

\* mutant: the test of line 116 is missing
StartConflictNever(test_id) == FALSE

\* start_test line 116: `if self._active_test and self._active_test != test_id`
StartConflict(test_id) == activeTest # None /\ activeTest # Some(test_id)

\* start_test
StartTest(test_id) ==
    /\ IF test_id \notin DOMAIN tests
         THEN /\ abLast' = ABCall("start_test", Some(test_id), NotFound)
              /\ UNCHANGED <<tests, activeTest>>
         ELSE IF StartConflict(test_id)
         THEN /\ abLast' = ABCall("start_test", Some(test_id), AnotherRunning)
              /\ UNCHANGED <<tests, activeTest>>
         ELSE /\ tests' = [tests EXCEPT ![test_id].status = "RUNNING",
                                         ![test_id].started_at = Some(now)]
              /\ activeTest' = Some(test_id)
              /\ abLast' = ABCall("start_test", Some(test_id), "ok")
    /\ UNCHANGED <<now, alertVars, retrainVars, decideVars, schedVars, monitoringVars>>

\* mutant: a request sent to the challenger is counted for the champion
RouteRequestMiscounts(test_id, draw) ==
    /\ LET tid == IF test_id # None THEN test_id ELSE activeTest
       IN IF tid = None
          THEN /\ abLast' = ABCall("route_request", test_id, "default")
               /\ UNCHANGED tests
          ELSE LET t == tid[1]
               IN IF t \notin DOMAIN tests \/ tests[t].status # "RUNNING"
                  THEN /\ abLast' = ABCall("route_request", test_id, "default")
                       /\ UNCHANGED tests
                  ELSE /\ TotalSamples < MaxSamples
                       /\ tests' = [tests EXCEPT ![t].champion_samples = @ + 1]
                       /\ abLast' = ABCall("route_request", test_id,
                                           IF draw < tests[t].config.challenger_traffic_percent
                                           THEN "challenger_model_id" ELSE "champion_model_id")
    /\ UNCHANGED <<activeTest, now, alertVars, retrainVars, decideVars, schedVars, monitoringVars>>

\* mutant: route_request routes to a stored test whatever its status
RouteRequestAnyStatus(test_id, draw) ==
    /\ LET tid == IF test_id # None THEN test_id ELSE activeTest
       IN IF tid = None
          THEN /\ abLast' = ABCall("route_request", test_id, "default")
               /\ UNCHANGED tests
          ELSE LET t == tid[1]
               IN IF t \notin DOMAIN tests
                  THEN /\ abLast' = ABCall("route_request", test_id, "default")
                       /\ UNCHANGED tests
                  ELSE /\ TotalSamples < MaxSamples
                       /\ IF draw < tests[t].config.challenger_traffic_percent
                            THEN /\ tests' = [tests EXCEPT ![t].challenger_samples = @ + 1]
                                 /\ abLast' = ABCall("route_request", test_id, "challenger_model_id")
                            ELSE /\ tests' = [tests EXCEPT ![t].champion_samples = @ + 1]
                                 /\ abLast' = ABCall("route_request", test_id, "champion_model_id")
    /\ UNCHANGED <<activeTest, now, alertVars, retrainVars, decideVars, schedVars, monitoringVars>>

\* route_request: test_id is Optional; draw is random.random() * 100
RouteRequest(test_id, draw) ==
    /\ LET tid == IF test_id # None THEN test_id ELSE activeTest
       IN IF tid = None
          THEN /\ abLast' = ABCall("route_request", test_id, "default")
               /\ UNCHANGED tests
          ELSE LET t == tid[1]
               IN IF t \notin DOMAIN tests \/ tests[t].status # "RUNNING"
                  THEN /\ abLast' = ABCall("route_request", test_id, "default")
                       /\ UNCHANGED tests
                  ELSE /\ TotalSamples < MaxSamples
                       /\ IF draw < tests[t].config.challenger_traffic_percent
                            THEN /\ tests' = [tests EXCEPT ![t].challenger_samples = @ + 1]
                                 /\ abLast' = ABCall("route_request", test_id, "challenger_model_id")
                            ELSE /\ tests' = [tests EXCEPT ![t].champion_samples = @ + 1]
                                 /\ abLast' = ABCall("route_request", test_id, "champion_model_id")
    /\ UNCHANGED <<activeTest, now, alertVars, retrainVars, decideVars, schedVars, monitoringVars>>

\* mutant: the floor of 500 is put to all samples of the test
StatisticalAnalysisTotalFloor(test, champion, challenger) ==
    LET primary == test.config.primary_metric
        champ_val == champion[primary]
        chal_val == challenger[primary]
        diff == chal_val - champ_val
        absdiff == IF diff < 0 THEN 0 - diff ELSE diff
        material == champ_val > 0 /\ absdiff * 100 > champ_val
        is_significant == test.champion_samples + test.challenger_samples >= SignificanceFloor
                              /\ material
    IN [ is_significant |-> is_significant,
         recommendation |-> IF is_significant /\ diff > 0 THEN "PROMOTE_CHALLENGER"
                            ELSE IF is_significant /\ diff < 0 THEN "KEEP_CHAMPION"
                            ELSE "CONTINUE_TEST",
         result |-> IF is_significant /\ diff > 0 THEN "CHALLENGER_WINS"
                    ELSE IF is_significant /\ diff < 0 THEN "CHAMPION_WINS"
                    ELSE "NO_SIGNIFICANT_DIFFERENCE" ]

\* _statistical_analysis; diff_percent = diff / champ_val * 100, and
\* abs(diff_percent) > 1.0 is, in integers, |diff| * 100 > champ_val
StatisticalAnalysis(test, champion, challenger) ==
    LET primary == test.config.primary_metric
        champ_val == champion[primary]
        chal_val == challenger[primary]
        diff == chal_val - champ_val
        absdiff == IF diff < 0 THEN 0 - diff ELSE diff
        material == champ_val > 0 /\ absdiff * 100 > champ_val
        is_significant == test.challenger_samples >= SignificanceFloor /\ material
    IN [ is_significant |-> is_significant,
         recommendation |-> IF is_significant /\ diff > 0 THEN "PROMOTE_CHALLENGER"
                            ELSE IF is_significant /\ diff < 0 THEN "KEEP_CHAMPION"
                            ELSE "CONTINUE_TEST",
         result |-> IF is_significant /\ diff > 0 THEN "CHALLENGER_WINS"
                    ELSE IF is_significant /\ diff < 0 THEN "CHAMPION_WINS"
                    ELSE "NO_SIGNIFICANT_DIFFERENCE" ]

\* inputs of _statistical_analysis: sample counts below, one short of and at
\* the floor, and values of the primary metric (in hundredths) that differ by
\* nothing, by less than, by exactly and by more than one percent, either way
AnalysisSamples == {0, 499, 500}
AnalysisChampion == {0, 88, 100}
AnalysisChallenger == {87, 88, 89, 98, 99, 100, 101, 102}

\* what evaluate_test returns below the minimum, lines 178-183
NotReady(test_id, total_samples, min_samples) ==
    [ op |-> "evaluate_test", id |-> Some(test_id),
      out |-> "not ready_for_decision",
      samples_collected |-> total_samples,
      samples_needed |-> min_samples,
      message |-> <<"Need", min_samples - total_samples, "more samples">> ]

\* mutant: a test exactly at the minimum is not yet evaluated
EvaluateTestAboveMinimum(test_id) ==
    /\ IF test_id \notin DOMAIN tests
         THEN /\ abLast' = ABCall("evaluate_test", Some(test_id), NotFound)
              /\ UNCHANGED tests
         ELSE LET test == tests[test_id]
                  total_samples == test.champion_samples + test.challenger_samples
              IN IF total_samples <= test.config.min_samples
                 THEN /\ abLast' = NotReady(test_id, total_samples, test.config.min_samples)
                      /\ UNCHANGED tests
                 ELSE /\ tests' = [tests EXCEPT
                            ![test_id].champion_metrics = Some(ChampionMetrics),
                            ![test_id].challenger_metrics = Some(ChallengerMetrics),
                            ![test_id].statistical_analysis =
                                Some(StatisticalAnalysis(test, ChampionMetrics, ChallengerMetrics))]
                      /\ abLast' = [ op |-> "evaluate_test", id |-> Some(test_id),
                                      out |-> "ready_for_decision",
                                      recommendation |->
                                          StatisticalAnalysis(test, ChampionMetrics,
                                                              ChallengerMetrics).recommendation ]
    /\ UNCHANGED <<activeTest, now, alertVars, retrainVars, decideVars, schedVars, monitoringVars>>

\* evaluate_test
EvaluateTest(test_id) ==
    /\ IF test_id \notin DOMAIN tests
         THEN /\ abLast' = ABCall("evaluate_test", Some(test_id), NotFound)
              /\ UNCHANGED tests
         ELSE LET test == tests[test_id]
                  total_samples == test.champion_samples + test.challenger_samples
              IN IF total_samples < test.config.min_samples
                 THEN /\ abLast' = NotReady(test_id, total_samples, test.config.min_samples)
                      /\ UNCHANGED tests
                 ELSE /\ tests' = [tests EXCEPT
                            ![test_id].champion_metrics = Some(ChampionMetrics),
                            ![test_id].challenger_metrics = Some(ChallengerMetrics),
                            ![test_id].statistical_analysis =
                                Some(StatisticalAnalysis(test, ChampionMetrics, ChallengerMetrics))]
                      /\ abLast' = [ op |-> "evaluate_test", id |-> Some(test_id),
                                      out |-> "ready_for_decision",
                                      recommendation |->
                                          StatisticalAnalysis(test, ChampionMetrics,
                                                              ChallengerMetrics).recommendation ]
    /\ UNCHANGED <<activeTest, now, alertVars, retrainVars, decideVars, schedVars, monitoringVars>>

\* lines 206-207 of evaluate_test on the metrics the test holds:
\* _statistical_analysis(test), its result kept on the test
AnalyseTest(test_id) ==
    /\ test_id \in DOMAIN tests
    /\ tests[test_id].champion_metrics # None
    /\ tests[test_id].challenger_metrics # None
    /\ LET test == tests[test_id]
           analysis == StatisticalAnalysis(test, test.champion_metrics[1],
                                           test.challenger_metrics[1])
       IN /\ tests' = [tests EXCEPT ![test_id].statistical_analysis = Some(analysis)]
          /\ abLast' = ABCall("_statistical_analysis", Some(test_id), analysis.recommendation)
    /\ UNCHANGED <<activeTest, now, alertVars, retrainVars, decideVars, schedVars, monitoringVars>>

\* mutant: conclude_test frees the active-test slot before it looks the test up
ConcludeTestFreesSlotFirst(test_id, result) ==
    /\ IF test_id \notin DOMAIN tests
         THEN /\ abLast' = ABCall("conclude_test", Some(test_id), NotFound)
              /\ activeTest' = None
              /\ UNCHANGED tests
         ELSE /\ tests' = [tests EXCEPT ![test_id].status = "COMPLETED",
                                         ![test_id].result = result,
                                         ![test_id].ended_at = Some(now)]
              /\ activeTest' = None
              /\ abLast' = ABCall("conclude_test", Some(test_id), "ok")
    /\ UNCHANGED <<now, alertVars, retrainVars, decideVars, schedVars, monitoringVars>>

\* mutant: conclude_test leaves the active-test slot as it is
ConcludeTestKeepsSlot(test_id, result) ==
    /\ IF test_id \notin DOMAIN tests
         THEN /\ abLast' = ABCall("conclude_test", Some(test_id), NotFound)
              /\ UNCHANGED <<tests, activeTest>>
         ELSE /\ tests' = [tests EXCEPT ![test_id].status = "COMPLETED",
                                         ![test_id].result = result,
                                         ![test_id].ended_at = Some(now)]
              /\ activeTest' = activeTest
              /\ abLast' = ABCall("conclude_test", Some(test_id), "ok")
    /\ UNCHANGED <<now, alertVars, retrainVars, decideVars, schedVars, monitoringVars>>

\* conclude_test (promote_challenger only logs)
ConcludeTest(test_id, result) ==
    /\ IF test_id \notin DOMAIN tests
         THEN /\ abLast' = ABCall("conclude_test", Some(test_id), NotFound)
              /\ UNCHANGED <<tests, activeTest>>
         ELSE /\ tests' = [tests EXCEPT ![test_id].status = "COMPLETED",
                                         ![test_id].result = result,
                                         ![test_id].ended_at = Some(now)]
              /\ activeTest' = IF activeTest = Some(test_id) THEN None ELSE activeTest
              /\ abLast' = ABCall("conclude_test", Some(test_id), "ok")
    /\ UNCHANGED <<now, alertVars, retrainVars, decideVars, schedVars, monitoringVars>>

\* mutant: abort_test leaves the active-test slot as it is
AbortTestKeepsSlot(test_id) ==
    /\ IF test_id \notin DOMAIN tests
         THEN /\ abLast' = ABCall("abort_test", Some(test_id), NotFound)
              /\ UNCHANGED <<tests, activeTest>>
         ELSE /\ tests' = [tests EXCEPT ![test_id].status = "ABORTED",
                                         ![test_id].ended_at = Some(now)]
              /\ UNCHANGED activeTest
              /\ abLast' = ABCall("abort_test", Some(test_id), "ok")
    /\ UNCHANGED <<now, alertVars, retrainVars, decideVars, schedVars, monitoringVars>>

\* abort_test
AbortTest(test_id) ==
    /\ IF test_id \notin DOMAIN tests
         THEN /\ abLast' = ABCall("abort_test", Some(test_id), NotFound)
              /\ UNCHANGED <<tests, activeTest>>
         ELSE /\ tests' = [tests EXCEPT ![test_id].status = "ABORTED",
                                         ![test_id].ended_at = Some(now)]
              /\ activeTest' = IF activeTest = Some(test_id) THEN None ELSE activeTest
              /\ abLast' = ABCall("abort_test", Some(test_id), "ok")
    /\ UNCHANGED <<now, alertVars, retrainVars, decideVars, schedVars, monitoringVars>>

\* get_active_test
GetActiveTest ==
    IF activeTest # None /\ activeTest[1] \in DOMAIN tests THEN activeTest ELSE None

\* ================================================================ alerts
AlertStatus == {"ACTIVE", "ACKNOWLEDGED", "RESOLVED"}

AlertIds == 1..MaxAlerts

\* the tasks that call create_alert on the event loop
Callers == {"c1", "c2"}

\* AlertService.DEDUP_WINDOW_HOURS, and the window in ticks
DEDUP_WINDOW_HOURS == 1
TicksPerHour == 1
DedupWindow == DEDUP_WINDOW_HOURS * TicksPerHour

\* AlertCreate values the callers pass (message and details are only stored)
AlertCreate ==
    { [model_id |-> "m1", alert_type |-> "DRIFT", severity |-> "WARNING",  title |-> "x"],
      [model_id |-> "m1", alert_type |-> "DRIFT", severity |-> "CRITICAL", title |-> "y"] }

Users == {"u1"}

\* the deduplication key (model_id, alert_type, title) of an Alert or AlertCreate
SameKey(x, y) ==
    /\ x.model_id = y.model_id
    /\ x.alert_type = y.alert_type
    /\ x.title = y.title

\* mutant: the status test of line 127 is missing
MatchesAnyStatus(alert, data, at) ==
    /\ SameKey(alert, data)
    /\ alert.created_at > at - DedupWindow

\* mutant: the scan misses an alert stored at this very instant
MatchesStale(alert, data, at) ==
    /\ SameKey(alert, data)
    /\ alert.status = "ACTIVE"
    /\ alert.created_at > at - DedupWindow
    /\ alert.created_at < at

\* the match of _find_duplicate, lines 124-128; at is datetime.utcnow()
Matches(alert, data, at) ==
    /\ SameKey(alert, data)
    /\ alert.status = "ACTIVE"
    /\ alert.created_at > at - DedupWindow

\* mutant: the scan of _find_duplicate finds nothing
FindDuplicateNever(data) == None

\* _find_duplicate: the first match in the dictionary's (insertion) order
FindDuplicate(data) ==
    LET found == {a \in DOMAIN alerts : Matches(alerts[a], data, now)}
    IN IF found = {} THEN None
       ELSE Some(CHOOSE a \in found : \A b \in found : a <= b)

\* a caller's task calls create_alert(data): the coroutine is scheduled
CreateAlertCall(c, data) ==
    /\ alertPc[c] \in {"idle", "done"}
    /\ alertPc' = [alertPc EXCEPT ![c] = "pending"]
    /\ alertData' = [alertData EXCEPT ![c] = Some(data)]
    /\ alertRet' = [alertRet EXCEPT ![c] = None]
    /\ LET inFlight == {d \in Callers \ {c} : alertPc[d] = "pending" /\ SameKey(alertData[d][1], data)}
       IN alertOverlap' = [d \in Callers |-> IF d = c THEN inFlight # {}
                                             ELSE alertOverlap[d] \/ d \in inFlight]
    /\ UNCHANGED <<alerts, alertLast, now, abVars, retrainVars, decideVars, schedVars, monitoringVars>>

\* create_alert runs: _find_duplicate and _send_notification contain no await
\* that suspends, so the body runs from its first line to its return without
\* yielding the event loop (_send_notification only logs)
CreateAlert(c) ==
    /\ alertPc[c] = "pending"
    /\ LET data == alertData[c][1]
           existing == FindDuplicate(data)
       IN IF existing # None
          THEN /\ alertRet' = [alertRet EXCEPT ![c] = Some([alert |-> existing[1], created |-> FALSE])]
               /\ UNCHANGED alerts
          ELSE /\ DOMAIN alerts # AlertIds
               /\ LET id == FreshId(DOMAIN alerts, MaxAlerts)
                      alert == [ model_id |-> data.model_id,
                                 alert_type |-> data.alert_type,
                                 severity |-> data.severity,
                                 status |-> "ACTIVE",
                                 title |-> data.title,
                                 created_at |-> now,
                                 acknowledged_at |-> None,
                                 acknowledged_by |-> None,
                                 resolved_at |-> None ]
                  IN /\ alerts' = Extend(alerts, id, alert)
                     /\ alertRet' = [alertRet EXCEPT ![c] = Some([alert |-> id, created |-> TRUE])]
    /\ alertPc' = [alertPc EXCEPT ![c] = "done"]
    /\ UNCHANGED <<alertData, alertOverlap, alertLast, now, abVars, retrainVars, decideVars, schedVars, monitoringVars>>

\* an acknowledge_alert call and its outcome
AckCall(alert_id, user_id, out) ==
    [op |-> "acknowledge_alert", id |-> alert_id, user_id |-> user_id, out |-> out]

\* mutant: acknowledge_alert does not record who acknowledged
AcknowledgeAlertUnsigned(alert_id, user_id) ==
    /\ IF alert_id \notin DOMAIN alerts
         THEN /\ alertLast' = AckCall(alert_id, user_id, "None")
              /\ UNCHANGED alerts
         ELSE /\ alerts' = [alerts EXCEPT ![alert_id].status = "ACKNOWLEDGED",
                                           ![alert_id].acknowledged_at = Some(now)]
              /\ alertLast' = AckCall(alert_id, user_id, "alert")
    /\ UNCHANGED <<alertPc, alertData, alertRet, alertOverlap, now, abVars, retrainVars, decideVars, schedVars, monitoringVars>>

\* acknowledge_alert
AcknowledgeAlert(alert_id, user_id) ==
    /\ IF alert_id \notin DOMAIN alerts
         THEN /\ alertLast' = AckCall(alert_id, user_id, "None")
              /\ UNCHANGED alerts
         ELSE /\ alerts' = [alerts EXCEPT ![alert_id].status = "ACKNOWLEDGED",
                                           ![alert_id].acknowledged_at = Some(now),
                                           ![alert_id].acknowledged_by = Some(user_id)]
              /\ alertLast' = AckCall(alert_id, user_id, "alert")
    /\ UNCHANGED <<alertPc, alertData, alertRet, alertOverlap, now, abVars, retrainVars, decideVars, schedVars, monitoringVars>>

\* resolve_alert
ResolveAlert(alert_id) ==
    /\ IF alert_id \notin DOMAIN alerts
         THEN /\ alertLast' = [op |-> "resolve_alert", id |-> alert_id, out |-> "None"]
              /\ UNCHANGED alerts
         ELSE /\ alerts' = [alerts EXCEPT ![alert_id].status = "RESOLVED",
                                           ![alert_id].resolved_at = Some(now)]
              /\ alertLast' = [op |-> "resolve_alert", id |-> alert_id, out |-> "alert"]
    /\ UNCHANGED <<alertPc, alertData, alertRet, alertOverlap, now, abVars, retrainVars, decideVars, schedVars, monitoringVars>>

\* ============================================================ retraining
RetrainStatus ==
    {"PENDING", "DATA_PREPARATION", "TRAINING", "VALIDATION", "COMPARISON",
     "COMPLETED", "FAILED", "REJECTED"}

JobIds == 1..MaxJobs

\* the run_pipeline calls that may be in flight together
Runs == {"r1", "r2"}

\* RetrainConfig values the callers pass: min_improvement_threshold in
\* hundredths (default 0.01) and auto_promote (default False)
RetrainConfig ==
    { [min_improvement_threshold |-> 1, auto_promote |-> FALSE],
      [min_improvement_threshold |-> 1, auto_promote |-> TRUE],
      [min_improvement_threshold |-> 5, auto_promote |-> FALSE] }

\* the mock metrics _step_training assigns, in hundredths
MockMetrics == [precision |-> 93, recall |-> 89, f1 |-> 91, auc |-> 96]

\* the mock comparison _step_comparison assigns, lines 221-235
MockComparison(job) ==
    [ current_model |-> [f1 |-> 88, precision |-> 90, recall |-> 86],
      new_model |-> job.metrics,
      improvement |-> [f1 |-> 3, precision |-> 3, recall |-> 3],
      is_better |-> TRUE,
      passes_threshold |-> TRUE ]

JobNotFound == "ValueError: Job not found"

\* trigger_retraining
TriggerRetraining(config) ==
    /\ DOMAIN jobs # JobIds
    /\ LET id == FreshId(DOMAIN jobs, MaxJobs)
           job == [ status |-> "PENDING",
                    config |-> config,
                    started_at |-> now,
                    completed_at |-> None,
                    current_step |-> "Initializing",
                    progress |-> 0,
                    metrics |-> None,
                    new_model_id |-> None,
                    comparison_result |-> None,
                    error |-> None ]
       IN jobs' = Extend(jobs, id, job)
    /\ UNCHANGED <<runPc, runJob, runRet, now, abVars, alertVars, decideVars, schedVars, monitoringVars>>

\* the first lines of each _step_*, up to its await asyncio.sleep
StepDataPreparation(job) ==
    [job EXCEPT !.status = "DATA_PREPARATION",
                !.current_step = "Preparing training data",
                !.progress = 2]

StepTraining(job) ==
    [job EXCEPT !.status = "TRAINING",
                !.current_step = "Training model",
                !.progress = 4]

\* the line of _step_training after its await
StepTrainingMetrics(job) == [job EXCEPT !.metrics = Some(MockMetrics)]

StepValidation(job) ==
    [job EXCEPT !.status = "VALIDATION",
                !.current_step = "Validating model",
                !.progress = 6]

StepComparison(job) ==
    [job EXCEPT !.status = "COMPARISON",
                !.current_step = "Comparing with production model",
                !.progress = 8,
                !.comparison_result = Some(MockComparison(job))]

\* mutant: the manual-approval branch attaches no new model id
StepDecisionNoCandidate(job, run) ==
    LET comparison == job.comparison_result
        decided ==
            IF comparison # None /\ comparison[1].is_better /\ comparison[1].passes_threshold
            THEN IF job.config.auto_promote
                 THEN [job EXCEPT !.status = "COMPLETED",
                                  !.current_step = "New model promoted to production",
                                  !.new_model_id = Some(<<"model", run>>)]
                 ELSE [job EXCEPT !.status = "COMPLETED",
                                  !.current_step = "Awaiting manual approval"]
            ELSE [job EXCEPT !.status = "REJECTED",
                             !.current_step = "New model did not meet improvement threshold"]
    IN [decided EXCEPT !.progress = 10, !.completed_at = Some(now)]

\* _step_decision; run is the call that mints the uuid4 of the new model
StepDecision(job, run) ==
    LET comparison == job.comparison_result
        decided ==
            IF comparison # None /\ comparison[1].is_better /\ comparison[1].passes_threshold
            THEN IF job.config.auto_promote
                 THEN [job EXCEPT !.status = "COMPLETED",
                                  !.current_step = "New model promoted to production",
                                  !.new_model_id = Some(<<"model", run>>)]
                 ELSE [job EXCEPT !.status = "COMPLETED",
                                  !.current_step = "Awaiting manual approval",
                                  !.new_model_id = Some(<<"model", run>>)]
            ELSE [job EXCEPT !.status = "REJECTED",
                             !.current_step = "New model did not meet improvement threshold"]
    IN [decided EXCEPT !.progress = 10, !.completed_at = Some(now)]

\* mutant: the except clause records the error and leaves the status
FailedKeepsStatus(job, e) == [job EXCEPT !.error = Some(e)]

\* the except clause of run_pipeline, lines 147-150
Failed(job, e) == [job EXCEPT !.status = "FAILED", !.error = Some(e)]

\* run_pipeline(job_id) is called: it runs to the await of _step_data_preparation
RunPipeline(r, job_id) ==
    /\ runPc[r] \in {"idle", "returned"}
    /\ runJob' = [runJob EXCEPT ![r] = Some(job_id)]
    /\ IF job_id \notin DOMAIN jobs
         THEN /\ runPc' = [runPc EXCEPT ![r] = "returned"]
              /\ runRet' = [runRet EXCEPT ![r] = [raised |-> TRUE, value |-> JobNotFound, caught |-> None]]
              /\ UNCHANGED jobs
         ELSE /\ jobs' = [jobs EXCEPT ![job_id] = StepDataPreparation(@)]
              /\ runPc' = [runPc EXCEPT ![r] = "data_preparation"]
              /\ runRet' = [runRet EXCEPT ![r] = [raised |-> FALSE, value |-> "running", caught |-> None]]
    /\ UNCHANGED <<now, abVars, alertVars, decideVars, schedVars, monitoringVars>>

\* the await of a stage completes: the pipeline runs on to the next await,
\* or through _step_decision to its return
RunResume(r) ==
    /\ runPc[r] \in {"data_preparation", "training", "validation", "comparison"}
    /\ LET j == runJob[r][1]
       IN \/ /\ runPc[r] = "data_preparation"
             /\ jobs' = [jobs EXCEPT ![j] = StepTraining(@)]
             /\ runPc' = [runPc EXCEPT ![r] = "training"]
             /\ UNCHANGED runRet
          \/ /\ runPc[r] = "training"
             /\ jobs' = [jobs EXCEPT ![j] = StepValidation(StepTrainingMetrics(@))]
             /\ runPc' = [runPc EXCEPT ![r] = "validation"]
             /\ UNCHANGED runRet
          \/ /\ runPc[r] = "validation"
             /\ jobs' = [jobs EXCEPT ![j] = StepComparison(@)]
             /\ runPc' = [runPc EXCEPT ![r] = "comparison"]
             /\ UNCHANGED runRet
          \/ /\ runPc[r] = "comparison"
             /\ jobs' = [jobs EXCEPT ![j] = StepDecision(@, r)]
             /\ runPc' = [runPc EXCEPT ![r] = "returned"]
             /\ runRet' = [runRet EXCEPT ![r] = [raised |-> FALSE, value |-> "job", caught |-> None]]
    /\ UNCHANGED <<runJob, now, abVars, alertVars, decideVars, schedVars, monitoringVars>>

\* the work a stage awaits raises an Exception: the except clause of
\* run_pipeline records it and the call returns the job
RunStageRaises(r) ==
    /\ runPc[r] \in {"data_preparation", "training", "validation", "comparison"}
    /\ LET j == runJob[r][1]
           e == <<"error in", runPc[r]>>
       IN /\ jobs' = [jobs EXCEPT ![j] = Failed(@, e)]
          /\ runRet' = [runRet EXCEPT ![r] = [raised |-> FALSE, value |-> "job", caught |-> Some(e)]]
    /\ runPc' = [runPc EXCEPT ![r] = "returned"]
    /\ UNCHANGED <<runJob, now, abVars, alertVars, decideVars, schedVars, monitoringVars>>

\* ---- the retraining trigger
\* the status values the monitors report
MonitorStatus == {"OK", "WARNING", "CRITICAL"}
Monitors == {"drift", "performance", "bias"}

\* mutant: performance is looked at before bias
ShouldRetrainPerformanceFirst(drift_status, performance_status, bias_status) ==
    IF performance_status = "CRITICAL" THEN [retrain |-> TRUE, reason |-> "PERFORMANCE_DEGRADATION"]
    ELSE IF bias_status = "CRITICAL" THEN [retrain |-> TRUE, reason |-> "BIAS_DETECTED"]
    ELSE IF drift_status = "CRITICAL" THEN [retrain |-> TRUE, reason |-> "DRIFT_DETECTED"]
    ELSE IF drift_status = "WARNING" /\ performance_status = "WARNING"
         THEN [retrain |-> TRUE, reason |-> "DRIFT_DETECTED"]
    ELSE [retrain |-> FALSE, reason |-> "MANUAL"]

\* should_retrain: the tuple (should_retrain, reason) it returns
ShouldRetrain(drift_status, performance_status, bias_status) ==
    IF bias_status = "CRITICAL" THEN [retrain |-> TRUE, reason |-> "BIAS_DETECTED"]
    ELSE IF performance_status = "CRITICAL" THEN [retrain |-> TRUE, reason |-> "PERFORMANCE_DEGRADATION"]
    ELSE IF drift_status = "CRITICAL" THEN [retrain |-> TRUE, reason |-> "DRIFT_DETECTED"]
    ELSE IF drift_status = "WARNING" /\ performance_status = "WARNING"
         THEN [retrain |-> TRUE, reason |-> "DRIFT_DETECTED"]
    ELSE [retrain |-> FALSE, reason |-> "MANUAL"]

\* a monitor reports a status: the next argument of should_retrain
Report(m, status) ==
    /\ monitor[m] # status
    /\ monitor' = [monitor EXCEPT ![m] = status]
    /\ UNCHANGED <<decision, now, abVars, alertVars, retrainVars, schedVars, monitoringVars>>

\* should_retrain is called with the statuses last reported
ShouldRetrainCall ==
    /\ decision' = Some([ drift_status |-> monitor["drift"],
                          performance_status |-> monitor["performance"],
                          bias_status |-> monitor["bias"],
                          returned |-> ShouldRetrain(monitor["drift"], monitor["performance"],
                                                     monitor["bias"]) ])
    /\ UNCHANGED <<monitor, now, abVars, alertVars, retrainVars, schedVars, monitoringVars>>

\* ============================================================== scheduler
\* JobStatus, JobType (scheduler.py)
JobStatus == {"PENDING", "RUNNING", "COMPLETED", "FAILED", "CANCELLED"}
JobType == {"DRIFT_CHECK", "BIAS_CHECK", "PERFORMANCE_CHECK", "MODEL_RETRAIN", "DATA_CLEANUP"}

\* the keys of _handlers after _register_default_handlers
Registered == {"DRIFT_CHECK", "BIAS_CHECK", "PERFORMANCE_CHECK"}

\* the job types the callers of create_job pass: one with a handler, one without
CreatedTypes == {"DRIFT_CHECK", "MODEL_RETRAIN"}

\* the ScheduledJob objects ever created, the JobRun records, and the
\* run_job calls that may be in flight together
SchedJobIds == 1..MaxSchedJobs
RunIds == 1..MaxRuns
Calls == {"k1", "k2"}

\* the default of the limit argument of get_job_runs
DEFAULT_LIMIT == 10

SchedJobNotFound == "ValueError: Job not found"
\* mutant: the message of the ValueError leaves the job type out
NoHandlerUnnamed(job_type) == <<"No handler for job type", "">>

NoHandler(job_type) == <<"No handler for job type", job_type>>

\* what the handler of a job type returns
HandlerResult(job_type) == <<"completed", job_type>>

\* the ids of the jobs held by the dictionary _jobs.  A deleted ScheduledJob
\* lives on as an object while a run_job call still refers to it
StoredJobs == {j \in DOMAIN schedJobs : schedJobs[j].stored}

\* _calculate_next_run: the schedule is ignored
CalculateNextRun == now + TicksPerHour

\* create_job
CreateJob(job_type) ==
    /\ DOMAIN schedJobs # SchedJobIds
    /\ LET id == FreshId(DOMAIN schedJobs, MaxSchedJobs)
           job == [ job_type |-> job_type,
                    enabled |-> TRUE,
                    last_run |-> None,
                    next_run |-> now + TicksPerHour,
                    status |-> "PENDING",
                    stored |-> TRUE ]
       IN schedJobs' = Extend(schedJobs, id, job)
    /\ UNCHANGED <<schedRuns, callPc, callRun, callRet, now, abVars, alertVars, retrainVars, decideVars, monitoringVars>>

\* mutant: the lines after the try statement leave next_run alone
FinishedJobKeepsNextRun(job, status) ==
    [job EXCEPT !.status = status, !.last_run = Some(now)]

\* run_job after the handler: lines 175-176 or 181-183 and lines 186-190,
\* on the run and on the job
FinishedRun(run, status, result, error) ==
    [run EXCEPT !.status = status, !.result = result, !.error = error,
                !.completed_at = Some(now)]

FinishedJob(job, status) ==
    [job EXCEPT !.status = status, !.last_run = Some(now), !.next_run = CalculateNextRun]

\* run_job(job_id) is called: it runs to the await of the handler, or, when
\* the job type has no handler, through the except clause to its return
RunJob(c, job_id) ==
    /\ callPc[c] \in {"idle", "returned"}
    /\ IF job_id \notin StoredJobs
         THEN /\ callPc' = [callPc EXCEPT ![c] = "returned"]
              /\ callRun' = [callRun EXCEPT ![c] = None]
              /\ callRet' = [callRet EXCEPT ![c] = [raised |-> TRUE, value |-> SchedJobNotFound]]
              /\ UNCHANGED <<schedJobs, schedRuns>>
         ELSE /\ DOMAIN schedRuns # RunIds
              /\ LET id == FreshId(DOMAIN schedRuns, MaxRuns)
                     job == schedJobs[job_id]
                     run == [ job_id |-> job_id,
                              job_type |-> job.job_type,
                              started_at |-> now,
                              completed_at |-> None,
                              status |-> "RUNNING",
                              result |-> None,
                              error |-> None ]
                 IN /\ callRun' = [callRun EXCEPT ![c] = Some(id)]
                    /\ IF job.job_type \in Registered
                         THEN /\ schedRuns' = Extend(schedRuns, id, run)
                              /\ schedJobs' = [schedJobs EXCEPT ![job_id].status = "RUNNING"]
                              /\ callPc' = [callPc EXCEPT ![c] = "handler"]
                              /\ callRet' = [callRet EXCEPT ![c] = [raised |-> FALSE, value |-> "running"]]
                         ELSE /\ schedRuns' = Extend(schedRuns, id,
                                      FinishedRun(run, "FAILED", None, Some(NoHandler(job.job_type))))
                              /\ schedJobs' = [schedJobs EXCEPT ![job_id] = FinishedJob(@, "FAILED")]
                              /\ callPc' = [callPc EXCEPT ![c] = "returned"]
                              /\ callRet' = [callRet EXCEPT ![c] = [raised |-> FALSE, value |-> "no handler"]]
    /\ UNCHANGED <<now, abVars, alertVars, retrainVars, decideVars, monitoringVars>>

\* the handler returns its result: run_job runs on to its return
HandlerReturns(c) ==
    /\ callPc[c] = "handler"
    /\ LET id == callRun[c][1]
           run == schedRuns[id]
       IN /\ schedRuns' = [schedRuns EXCEPT
                 ![id] = FinishedRun(run, "COMPLETED", Some(HandlerResult(run.job_type)), None)]
          /\ schedJobs' = [schedJobs EXCEPT ![run.job_id] = FinishedJob(@, "COMPLETED")]
    /\ callPc' = [callPc EXCEPT ![c] = "returned"]
    /\ callRet' = [callRet EXCEPT ![c] = [raised |-> FALSE, value |-> "handler returned"]]
    /\ UNCHANGED <<callRun, now, abVars, alertVars, retrainVars, decideVars, monitoringVars>>

\* mutant: the exception of the handler escapes run_job
HandlerRaisesUncaught(c) ==
    /\ callPc[c] = "handler"
    /\ callPc' = [callPc EXCEPT ![c] = "returned"]
    /\ callRet' = [callRet EXCEPT ![c] = [raised |-> TRUE, value |-> "handler raised"]]
    /\ UNCHANGED <<schedJobs, schedRuns, callRun, now, abVars, alertVars, retrainVars, decideVars, monitoringVars>>

\* the handler raises an Exception: the except clause records it and run_job
\* runs on to its return
HandlerRaises(c) ==
    /\ callPc[c] = "handler"
    /\ LET id == callRun[c][1]
           run == schedRuns[id]
           e == <<"error in handler", run.job_type>>
       IN /\ schedRuns' = [schedRuns EXCEPT ![id] = FinishedRun(run, "FAILED", None, Some(e))]
          /\ schedJobs' = [schedJobs EXCEPT ![run.job_id] = FinishedJob(@, "FAILED")]
    /\ callPc' = [callPc EXCEPT ![c] = "returned"]
    /\ callRet' = [callRet EXCEPT ![c] = [raised |-> FALSE, value |-> "handler raised"]]
    /\ UNCHANGED <<callRun, now, abVars, alertVars, retrainVars, decideVars, monitoringVars>>

\* mutant: delete_job detaches the runs of the job from it
DeleteJobOrphansRuns(job_id) ==
    /\ job_id \in StoredJobs
    /\ schedJobs' = [schedJobs EXCEPT ![job_id].stored = FALSE]
    /\ schedRuns' = [r \in DOMAIN schedRuns |->
                        IF schedRuns[r].job_id = job_id
                        THEN [schedRuns[r] EXCEPT !.job_id = 0] ELSE schedRuns[r]]
    /\ UNCHANGED <<callPc, callRun, callRet, now, abVars, alertVars, retrainVars, decideVars, monitoringVars>>

\* delete_job
DeleteJob(job_id) ==
    /\ job_id \in StoredJobs
    /\ schedJobs' = [schedJobs EXCEPT ![job_id].stored = FALSE]
    /\ UNCHANGED <<schedRuns, callPc, callRun, callRet, now, abVars, alertVars, retrainVars, decideVars, monitoringVars>>

\* enable_job and disable_job: the enabled flag of a stored job is assigned
SetEnabled(job_id, enabled) ==
    /\ job_id \in StoredJobs
    /\ schedJobs' = [schedJobs EXCEPT ![job_id].enabled = enabled]
    /\ UNCHANGED <<schedRuns, callPc, callRun, callRet, now, abVars, alertVars, retrainVars, decideVars, monitoringVars>>

\* get_job_runs(job_id, limit): the runs of the job, latest started first (the
\* sort is stable: runs started at the same time stay in the order they were
\* recorded in), cut to limit
RECURSIVE Latest(_, _)
Latest(runs, ids) ==
    IF ids = {} THEN << >>
    ELSE LET first == CHOOSE r \in ids : \A q \in ids :
                          \/ runs[r].started_at > runs[q].started_at
                          \/ runs[r].started_at = runs[q].started_at /\ r <= q
         IN  <<runs[first]>> \o Latest(runs, ids \ {first})

GetJobRuns(runs, job_id, limit) ==
    LET all == Latest(runs, {r \in DOMAIN runs : runs[r].job_id = job_id})
    IN  SubSeq(all, 1, IF Len(all) < limit THEN Len(all) ELSE limit)

\* ================================================================ baselines
\* Metric values and thresholds are floats in the code; here they are in
\* units of 0.00001 (0.85 is 85000), so that the tolerance of "eq", 0.0001, is 10.
BModels == {"m1", "m2"}
BCalls == {"b1", "b2"}
MaxConfigs == 2

BaselineConfig(metric, threshold, operator, severity) ==
    [metric |-> metric, threshold |-> threshold, operator |-> operator,
     severity |-> severity]

DEFAULT_BASELINES ==
    << BaselineConfig("precision", 85000, "gte", "WARNING"),
       BaselineConfig("recall", 80000, "gte", "CRITICAL"),
       BaselineConfig("f1", 82000, "gte", "WARNING"),
       BaselineConfig("auc", 90000, "gte", "WARNING"),
       BaselineConfig("fpr", 10000, "lte", "WARNING") >>

\* the configurations a caller passes: default metrics with the default and
\* with another severity, and a metric that has no default
BaselineConfigs ==
    { BaselineConfig("precision", 85000, "gte", "WARNING"),
      BaselineConfig("precision", 85000, "gte", "CRITICAL"),
      BaselineConfig("recall", 80000, "gte", "WARNING"),
      BaselineConfig("latency", 50000, "lt", "CRITICAL") }

ConfigLists == UNION {[1..n -> BaselineConfigs] : n \in 0..MaxConfigs}

\* the current_metrics maps a caller passes to check_baselines
CurrentMetrics ==
    UNION {[d -> {5000, 90000}] : d \in SUBSET {"precision", "recall", "latency"}}

\* inputs for the evaluation of one baseline: the five operators
\* _evaluate_baseline knows on the default threshold of f1, a baseline on a
\* second metric, and current values at the threshold and on both sides of
\* the tolerance of "eq"
Operators == {"gte", "lte", "eq", "gt", "lt"}
EvalConfigs ==
    {BaselineConfig("f1", 82000, op, "WARNING") : op \in Operators}
        \cup {BaselineConfig("auc", 82000, "gte", "WARNING")}
EvalConfigLists == UNION {[1..n -> EvalConfigs] : n \in 1..MaxConfigs}
EvalValues == {81990, 81991, 82000, 82009, 82010}
EvalMetrics == UNION {[d -> EvalValues] : d \in SUBSET {"f1", "auc"}}

\* the Baseline row set_baselines builds from a BaselineConfig: the row has
\* no severity column.  The id names the call that added the row and the
\* position of its configuration
Baseline(id, model_id, config) ==
    [id |-> id, model_id |-> model_id, metric_name |-> config.metric,
     threshold |-> config.threshold, operator |-> config.operator]

RowIds(rows) == {rows[i].id : i \in 1..Len(rows)}

\* get_baselines: select(Baseline).where(Baseline.model_id == uuid_id)
GetBaselines(model_id) == SelectSeq(baselines, LAMBDA b : b.model_id = model_id)

\* set_baselines up to its first await.  The session begins a transaction and
\* sends the DELETE; the statement sees the rows committed by then (READ
\* COMMITTED, the default of the configured database)
SetBaselinesCall(c, model_id, configs) ==
    /\ setPc[c] = "idle"
    /\ setPc' = [setPc EXCEPT ![c] = "delete"]
    /\ setTx' = [setTx EXCEPT ![c] =
                    Some([model_id |-> model_id, baselines |-> configs,
                          snapshot |-> RowIds(GetBaselines(model_id)),
                          deleted |-> {}])]
    /\ UNCHANGED <<baselines, checkRet>>
    /\ UNCHANGED <<now, abVars, alertVars, retrainVars, decideVars, schedVars, driftRet, biasRet, fairRet>>

\* the rows another open transaction has deleted and not yet committed: the
\* DELETE of this call waits for them
LockedByOthers(c) ==
    UNION {setTx[d][1].deleted : d \in {e \in BCalls \ {c} : setPc[e] = "deleted"}}

\* the DELETE returns.  It has deleted, inside the transaction, the rows it
\* saw that are still there; a row another transaction deleted and committed
\* meanwhile is skipped, a row committed after the statement began is not seen
DeleteReturns(c) ==
    /\ setPc[c] = "delete"
    /\ setTx[c][1].snapshot \cap LockedByOthers(c) = {}
    /\ setPc' = [setPc EXCEPT ![c] = "deleted"]
    /\ setTx' = [setTx EXCEPT ![c] =
                    Some([setTx[c][1] EXCEPT
                            !.deleted = setTx[c][1].snapshot \cap RowIds(baselines)])]
    /\ UNCHANGED <<baselines, checkRet>>
    /\ UNCHANGED <<now, abVars, alertVars, retrainVars, decideVars, schedVars, driftRet, biasRet, fairRet>>

\* the rows the loop adds to the session, in the order of the configurations
Created(c) ==
    [i \in 1..Len(setTx[c][1].baselines) |->
        Baseline(<<c, i>>, setTx[c][1].model_id, setTx[c][1].baselines[i])]

\* the loop that adds one row per configuration, and the commit: the deleted
\* rows go and the added rows appear, together
Committed(c) ==
    SelectSeq(baselines, LAMBDA b : b.id \notin setTx[c][1].deleted) \o Created(c)

CommitReturns(c) ==
    /\ setPc[c] = "deleted"
    /\ baselines' = Committed(c)
    /\ setPc' = [setPc EXCEPT ![c] = "done"]
    /\ UNCHANGED <<setTx, checkRet>>
    /\ UNCHANGED <<now, abVars, alertVars, retrainVars, decideVars, schedVars, driftRet, biasRet, fairRet>>

\* the DELETE or the commit raises: set_baselines has no except clause, the
\* call raises and its transaction is never committed
SetBaselinesRaises(c) ==
    /\ setPc[c] \in {"delete", "deleted"}
    /\ setPc' = [setPc EXCEPT ![c] = "failed"]
    /\ UNCHANGED <<baselines, setTx, checkRet>>
    /\ UNCHANGED <<now, abVars, alertVars, retrainVars, decideVars, schedVars, driftRet, biasRet, fairRet>>

\* the tolerance of "eq", 0.0001
EQ_TOLERANCE == 10

\* mutant: "gte" and "lte" compare strictly
EvaluateBaselineStrict(current, threshold, operator) ==
    CASE operator = "gte" -> current > threshold
      [] operator = "lte" -> current < threshold
      [] operator = "eq" -> current - threshold < EQ_TOLERANCE /\ threshold - current < EQ_TOLERANCE
      [] operator = "gt" -> current > threshold
      [] operator = "lt" -> current < threshold
      [] OTHER -> TRUE

\* _evaluate_baseline
EvaluateBaseline(current, threshold, operator) ==
    CASE operator = "gte" -> current >= threshold
      [] operator = "lte" -> current <= threshold
      [] operator = "eq" -> current - threshold < EQ_TOLERANCE /\ threshold - current < EQ_TOLERANCE
      [] operator = "gt" -> current > threshold
      [] operator = "lt" -> current < threshold
      [] OTHER -> TRUE

\* the loop over DEFAULT_BASELINES that picks the severity of a result: the
\* severity of the first default for the metric, "WARNING" when there is none
DefaultSeverity(metric_name) ==
    LET hits == SelectSeq(DEFAULT_BASELINES, LAMBDA cfg : cfg.metric = metric_name)
    IN  IF hits = << >> THEN "WARNING" ELSE hits[1].severity

BaselineCheckResult(metric, current_value, threshold, operator, passed, severity, message) ==
    [metric |-> metric, current_value |-> current_value, threshold |-> threshold,
     operator |-> operator, passed |-> passed, severity |-> severity,
     message |-> message]

\* the body of the loop of check_baselines, for one baseline
CheckOne(baseline, current_metrics) ==
    LET metric_name == baseline.metric_name
    IN  IF metric_name \notin DOMAIN current_metrics
        THEN BaselineCheckResult(metric_name, 0, baseline.threshold, baseline.operator,
                 FALSE, "WARNING",
                 <<"Metric", metric_name, "not found in current metrics">>)
        ELSE LET current_value == current_metrics[metric_name]
                 passed == EvaluateBaseline(current_value, baseline.threshold,
                                            baseline.operator)
             IN  BaselineCheckResult(metric_name, current_value, baseline.threshold,
                     baseline.operator, passed, DefaultSeverity(metric_name),
                     <<metric_name, current_value,
                       IF passed THEN "meets threshold" ELSE "violates threshold",
                       baseline.operator, baseline.threshold>>)

CheckBaselinesSkipsMissing(model_id, current_metrics) ==
    LET found == SelectSeq(GetBaselines(model_id),
                           LAMBDA b : b.metric_name \in DOMAIN current_metrics)
    IN  /\ checkRet' = Some([model_id |-> model_id, current_metrics |-> current_metrics,
                             results |-> [i \in 1..Len(found) |->
                                             CheckOne(found[i], current_metrics)]])
        /\ UNCHANGED <<baselines, setPc, setTx>>
        /\ UNCHANGED <<now, abVars, alertVars, retrainVars, decideVars, schedVars, driftRet, biasRet, fairRet>>

\* check_baselines: one result per baseline get_baselines returned, in its order
CheckBaselines(model_id, current_metrics) ==
    LET found == GetBaselines(model_id)
    IN  /\ checkRet' = Some([model_id |-> model_id, current_metrics |-> current_metrics,
                             results |-> [i \in 1..Len(found) |->
                                             CheckOne(found[i], current_metrics)]])
        /\ UNCHANGED <<baselines, setPc, setTx>>
        /\ UNCHANGED <<now, abVars, alertVars, retrainVars, decideVars, schedVars, driftRet, biasRet, fairRet>>

\* ==================================================================== drift
\* PSI, the KS statistic and its p-value are floats in the code; here they are
\* in thousandths (0.25 is 250).
PSI_WARNING == 100
PSI_CRITICAL == 250
KS_ALPHA == 50
KS_STAT_MIN == 100

MaxFeatures == 2
\* the stored models; each has the first MaxFeatures of the default features
\* as its feature_names
DriftModels == {"m1"}
FeatureNames(model_id) ==
    SubSeq(<<"amount", "hour_of_day", "day_of_week", "user_txn_count",
             "time_since_last", "is_night", "merchant_risk_score", "velocity_1h",
             "velocity_24h">>, 1, MaxFeatures)

\* the values random.uniform draws for a feature, on both sides of each threshold
Draws == [psi : {50, 200, 300}, ks_statistic : {50, 150}, ks_p_value : {10, 500}]

\* _compute_drift_metrics: the entry of one feature.  The status follows the
\* PSI alone.  The "trend" entry, which nothing reads, is left out
DriftMetric(feature, draw) ==
    [feature |-> feature, psi |-> draw.psi, ks_statistic |-> draw.ks_statistic,
     ks_p_value |-> draw.ks_p_value,
     status |-> IF draw.psi > PSI_CRITICAL THEN "CRITICAL"
                ELSE IF draw.psi > PSI_WARNING THEN "WARNING"
                ELSE "OK"]

DriftAlert(feature, metric, current_value, threshold, severity) ==
    [feature |-> feature, metric |-> metric, current_value |-> current_value,
     threshold |-> threshold, severity |-> severity]

\* _generate_alerts, for one feature: the PSI alert, then the KS alert
PsiAlerts(m) ==
    IF m.psi > PSI_CRITICAL
    THEN <<DriftAlert(m.feature, "psi", m.psi, PSI_CRITICAL, "CRITICAL")>>
    ELSE IF m.psi > PSI_WARNING
    THEN <<DriftAlert(m.feature, "psi", m.psi, PSI_WARNING, "WARNING")>>
    ELSE << >>

KsAlerts(m) ==
    IF m.ks_p_value < KS_ALPHA /\ m.ks_statistic > KS_STAT_MIN
    THEN <<DriftAlert(m.feature, "ks_statistic", m.ks_statistic, KS_ALPHA, "WARNING")>>
    ELSE << >>

RECURSIVE GenerateAlerts(_)
GenerateAlerts(metrics) ==
    IF metrics = << >> THEN << >>
    ELSE PsiAlerts(Head(metrics)) \o KsAlerts(Head(metrics)) \o GenerateAlerts(Tail(metrics))

OverallStatus(drift_alerts) ==
    IF \E i \in 1..Len(drift_alerts) : drift_alerts[i].severity = "CRITICAL" THEN "CRITICAL"
    ELSE IF \E i \in 1..Len(drift_alerts) : drift_alerts[i].severity = "WARNING" THEN "WARNING"
    ELSE "OK"

\* run_drift_check.  Storing the metrics and creating the alerts only log
RunDriftCheck(model_id, draws) ==
    /\ IF model_id \notin DriftModels
       THEN driftRet' = Some([raised |-> TRUE, value |-> "ValueError: Model not found"])
       ELSE LET features == FeatureNames(model_id)
                drift_metrics == [i \in 1..Len(features) |-> DriftMetric(features[i], draws[i])]
                drift_alerts == GenerateAlerts(drift_metrics)
            IN  driftRet' = Some([raised |-> FALSE,
                    value |-> [model_id |-> model_id,
                               computed_at |-> now,
                               overall_status |-> OverallStatus(drift_alerts),
                               feature_count |-> Len(drift_metrics),
                               drifted_features |->
                                   Len(SelectSeq(drift_metrics, LAMBDA m : m.status # "OK")),
                               alerts |-> drift_alerts,
                               metrics |-> drift_metrics]])
    /\ UNCHANGED <<biasRet, fairRet, baselines, setPc, setTx, checkRet>>
    /\ UNCHANGED <<now, abVars, alertVars, retrainVars, decideVars, schedVars>>

\* ===================================================================== bias
\* Selection rates, the parity difference and the disparate impact are floats
\* in the code; here they are exact, in thousandths (0.8 is 800).
DEMOGRAPHIC_PARITY_THRESHOLD == 100
DISPARATE_IMPACT_THRESHOLD == 800

MaxGroups == 3

\* the positive rate of each group of a protected attribute, one entry per
\* value of sensitive.unique(); no entry when the attribute has no rows
GroupRates == UNION {[1..n -> {0, 350, 500, 800, 900, 1000}] : n \in 0..MaxGroups}

MaxOf(rates) == CHOOSE x \in {rates[i] : i \in 1..Len(rates)} : \A i \in 1..Len(rates) : rates[i] <= x
MinOf(rates) == CHOOSE x \in {rates[i] : i \in 1..Len(rates)} : \A i \in 1..Len(rates) : rates[i] >= x

DisparateImpactOfZeroRates(rates) ==
    IF MaxOf(rates) > 0 THEN (MinOf(rates) * 1000) \div MaxOf(rates) ELSE 0

\* min rate / max rate, 1.0 when no group has a positive prediction.  The
\* quotient is rounded down: it is only compared with whole thousandths
DisparateImpact(rates) ==
    IF MaxOf(rates) > 0 THEN (MinOf(rates) * 1000) \div MaxOf(rates) ELSE 1000

BiasStatus(dp_diff, disparate_impact) ==
    IF dp_diff > DEMOGRAPHIC_PARITY_THRESHOLD * 2
         \/ disparate_impact < DISPARATE_IMPACT_THRESHOLD - 100
    THEN "CRITICAL"
    ELSE IF dp_diff > DEMOGRAPHIC_PARITY_THRESHOLD
              \/ disparate_impact < DISPARATE_IMPACT_THRESHOLD
    THEN "WARNING"
    ELSE "OK"

\* _compute_attribute_bias from the group rates on.  With no group,
\* max(rates) raises ValueError.  The equalized odds difference, which the
\* status does not read, is left out
ComputeAttributeBias(rates) ==
    /\ IF rates = << >>
       THEN biasRet' = Some([raised |-> TRUE, value |-> "ValueError: max() arg is an empty sequence"])
       ELSE LET dp_diff == MaxOf(rates) - MinOf(rates)
                disparate_impact == DisparateImpact(rates)
            IN  biasRet' = Some([raised |-> FALSE,
                    value |-> [demographic_parity_diff |-> dp_diff,
                               disparate_impact |-> disparate_impact,
                               group_rates |-> rates,
                               status |-> BiasStatus(dp_diff, disparate_impact)]])
    /\ UNCHANGED <<driftRet, fairRet, baselines, setPc, setTx, checkRet>>
    /\ UNCHANGED <<now, abVars, alertVars, retrainVars, decideVars, schedVars>>

\* ================================================================= fairness
\* Rates and differences are in thousandths, as for the bias detector.
MitigationStrategy == {"REWEIGH", "THRESHOLD", "EXPONENTIATED", "GRID_SEARCH"}

\* the selection rate of each of two groups under a prediction, and the
\* equalized odds difference fairlearn computes for it
FairRates == [1..2 -> {0, 1000}]
OddsValues == {0, 150}

\* compute_metrics: with fairlearn, its metrics; on ImportError
\* _compute_fallback_metrics, which reports the parity difference and ratio as
\* the equalized odds difference and ratio
ComputeMetrics(fairlearn, rates, eo_diff) ==
    LET dp_diff == MaxOf(rates) - MinOf(rates)
        dp_ratio == DisparateImpact(rates)
    IN  [demographic_parity_difference |-> dp_diff,
         demographic_parity_ratio |-> dp_ratio,
         equalized_odds_difference |-> IF fairlearn THEN eo_diff ELSE dp_diff,
         selection_rate |-> rates]

MitigationResult(strategy, original_metrics, mitigated_metrics, improvement) ==
    [raised |-> FALSE,
     value |-> [strategy |-> strategy, original_metrics |-> original_metrics,
                mitigated_metrics |-> mitigated_metrics, improvement |-> improvement]]

ApplyStrategyImportErrorEscapes(strategy, fairlearn, fit_raises, original_metrics, mitigated_metrics) ==
    IF ~fairlearn /\ strategy = "GRID_SEARCH"
    THEN [raised |-> TRUE, value |-> "ImportError"]
    ELSE MitigationResult(strategy, original_metrics,
             IF fairlearn THEN mitigated_metrics ELSE original_metrics, << >>)

\* _apply_threshold_optimizer, _apply_exponentiated_gradient and
\* _apply_grid_search: without fairlearn the import raises ImportError, which
\* is caught, and the original metrics are returned as the mitigated ones;
\* with it, an exception of the fit is not caught
ApplyStrategy(strategy, fairlearn, fit_raises, original_metrics, mitigated_metrics) ==
    LET dp == original_metrics.demographic_parity_difference
                - mitigated_metrics.demographic_parity_difference
        eo == original_metrics.equalized_odds_difference
                - mitigated_metrics.equalized_odds_difference
    IN  IF ~fairlearn
        THEN MitigationResult(strategy, original_metrics, original_metrics, << >>)
        ELSE IF fit_raises
        THEN [raised |-> TRUE, value |-> "Exception"]
        ELSE MitigationResult(strategy, original_metrics, mitigated_metrics,
                 CASE strategy = "THRESHOLD" -> [dp_diff |-> dp, eo_diff |-> eo]
                   [] strategy = "EXPONENTIATED" -> [dp_diff |-> dp]
                   [] strategy = "GRID_SEARCH" -> [eo_diff |-> eo])

\* mitigate_bias: a strategy without a branch of its own falls to the
\* threshold optimizer.  fairlearn says whether the package can be imported
MitigateBias(strategy, fairlearn, fit_raises, original, mitigated) ==
    /\ fairRet' =
         Some([call |-> [strategy |-> strategy, fairlearn |-> fairlearn],
               ret |-> ApplyStrategy(
                   IF strategy \in {"THRESHOLD", "EXPONENTIATED", "GRID_SEARCH"}
                   THEN strategy ELSE "THRESHOLD",
                   fairlearn, fit_raises,
                   ComputeMetrics(fairlearn, original.rates, original.eo_diff),
                   ComputeMetrics(fairlearn, mitigated.rates, mitigated.eo_diff))])
    /\ UNCHANGED <<driftRet, biasRet, baselines, setPc, setTx, checkRet>>
    /\ UNCHANGED <<now, abVars, alertVars, retrainVars, decideVars, schedVars>>

\* ========================================================= specifications
\* the state after construction of the services other than the tests and the
\* active-test slot of ABTestingService
InitServices ==
    /\ now = 0
    /\ abLast = ABCall("__init__", None, "ok")
    /\ alerts = << >>
    /\ alertPc = [c \in Callers |-> "idle"]
    /\ alertData = [c \in Callers |-> None]
    /\ alertRet = [c \in Callers |-> None]
    /\ alertOverlap = [c \in Callers |-> FALSE]
    /\ alertLast = [op |-> "__init__", id |-> 0, out |-> "None"]
    /\ jobs = << >>
    /\ runPc = [r \in Runs |-> "idle"]
    /\ runJob = [r \in Runs |-> None]
    /\ runRet = [r \in Runs |-> [raised |-> FALSE, value |-> "idle", caught |-> None]]
    /\ monitor = [m \in Monitors |-> "OK"]
    /\ decision = None
    /\ schedJobs = << >>
    /\ schedRuns = << >>
    /\ callPc = [c \in Calls |-> "idle"]
    /\ callRun = [c \in Calls |-> None]
    /\ callRet = [c \in Calls |-> [raised |-> FALSE, value |-> "idle"]]
    /\ baselines = << >>
    /\ setPc = [c \in BCalls |-> "idle"]
    /\ setTx = [c \in BCalls |-> None]
    /\ checkRet = None
    /\ driftRet = None
    /\ biasRet = None
    /\ fairRet = None

Init ==
    /\ tests = << >>
    /\ activeTest = None
    /\ InitServices

\* one running test as _statistical_analysis may be handed it: the sample
\* counters and the values of the primary metric drawn from the input sets
InitAnalysis ==
    /\ \E config \in ABTestConfig, champion_samples \in AnalysisSamples,
          challenger_samples \in AnalysisSamples,
          champ_val \in AnalysisChampion, chal_val \in AnalysisChallenger :
            tests = << [ config |-> config,
                         status |-> "RUNNING",
                         result |-> "PENDING",
                         started_at |-> Some(0),
                         ended_at |-> None,
                         champion_samples |-> champion_samples,
                         challenger_samples |-> challenger_samples,
                         champion_metrics |-> Some([ChampionMetrics EXCEPT !.f1 = champ_val]),
                         challenger_metrics |-> Some([ChallengerMetrics EXCEPT !.f1 = chal_val]),
                         statistical_analysis |-> None ] >>
    /\ activeTest = Some(1)
    /\ InitServices

NextAB ==
    \/ \E config \in ABTestConfig : CreateTest(config)
    \/ \E t \in TestIds : StartTest(t)
    \/ \E t \in {None} \cup {Some(i) : i \in TestIds}, draw \in RandomDraws : RouteRequest(t, draw)
    \/ \E t \in TestIds : EvaluateTest(t)
    \/ \E t \in TestIds, result \in ConcludeResults : ConcludeTest(t, result)
    \/ \E t \in TestIds : AbortTest(t)

\* the A/B testing service with conclude_test always given the same result:
\* the result is stored in the test and read by no operation
NextABTraffic ==
    \/ \E config \in ABTestConfig : CreateTest(config)
    \/ \E t \in TestIds : StartTest(t)
    \/ \E t \in {None} \cup {Some(i) : i \in TestIds}, draw \in RandomDraws : RouteRequest(t, draw)
    \/ \E t \in TestIds : EvaluateTest(t)
    \/ \E t \in TestIds : ConcludeTest(t, "NO_SIGNIFICANT_DIFFERENCE")
    \/ \E t \in TestIds : AbortTest(t)

NextAlert ==
    \/ Tick
    \/ \E data \in AlertCreate : CreateAlertCall("c1", data)
    \/ \E c \in Callers : CreateAlert(c)
    \/ \E a \in AlertIds, u \in Users : AcknowledgeAlert(a, u)
    \/ \E a \in AlertIds : ResolveAlert(a)

\* the alert service with concurrent callers of create_alert and no other call
NextAlertCreate ==
    \/ Tick
    \/ \E c \in Callers, data \in AlertCreate : CreateAlertCall(c, data)
    \/ \E c \in Callers : CreateAlert(c)

NextRetrain ==
    \/ \E config \in RetrainConfig : TriggerRetraining(config)
    \/ \E r \in Runs, j \in JobIds : RunPipeline(r, j)
    \/ \E r \in Runs : RunResume(r)
    \/ \E r \in Runs : RunStageRaises(r)

NextDecide ==
    \/ \E m \in Monitors, status \in MonitorStatus : Report(m, status)
    \/ ShouldRetrainCall

NextSched ==
    \/ Tick
    \/ \E job_type \in CreatedTypes : CreateJob(job_type)
    \/ \E c \in Calls, j \in SchedJobIds : RunJob(c, j)
    \/ \E c \in Calls : HandlerReturns(c)
    \/ \E c \in Calls : HandlerRaises(c)
    \/ \E j \in SchedJobIds : DeleteJob(j)

\* the scheduler with one caller of run_job and the calls that enable, disable
\* and delete a job
NextSchedFlag ==
    \/ Tick
    \/ \E job_type \in CreatedTypes : CreateJob(job_type)
    \/ \E j \in SchedJobIds : RunJob("k1", j)
    \/ HandlerReturns("k1")
    \/ HandlerRaises("k1")
    \/ \E j \in SchedJobIds : DeleteJob(j)
    \/ \E j \in SchedJobIds, enabled \in BOOLEAN : SetEnabled(j, enabled)

\* set_baselines called concurrently
NextBaseline ==
    \/ \E c \in BCalls, m \in BModels, configs \in ConfigLists : SetBaselinesCall(c, m, configs)
    \/ \E c \in BCalls : DeleteReturns(c)
    \/ \E c \in BCalls : CommitReturns(c)
    \/ \E c \in BCalls : SetBaselinesRaises(c)

\* one set_baselines call, and check_baselines
NextBaselineCheck ==
    \/ \E m \in BModels, configs \in ConfigLists : SetBaselinesCall("b1", m, configs)
    \/ DeleteReturns("b1")
    \/ CommitReturns("b1")
    \/ SetBaselinesRaises("b1")
    \/ \E m \in BModels, current_metrics \in CurrentMetrics : CheckBaselines(m, current_metrics)

\* the analysis of a test, on the metrics it holds and through evaluate_test
NextAnalysis ==
    \/ \E t \in TestIds : AnalyseTest(t)
    \/ \E t \in TestIds : EvaluateTest(t)

\* check_baselines on the baselines of one set_baselines call
NextEvaluate ==
    \/ baselines = << >> /\ \E configs \in EvalConfigLists : SetBaselinesCall("b1", "m1", configs)
    \/ DeleteReturns("b1")
    \/ CommitReturns("b1")
    \/ \E current_metrics \in EvalMetrics : CheckBaselines("m1", current_metrics)

NextDrift ==
    \E model_id \in DriftModels \cup {"m0"}, draws \in [1..MaxFeatures -> Draws] : RunDriftCheck(model_id, draws)

NextBias == \E rates \in GroupRates : ComputeAttributeBias(rates)

NextFair ==
    \E strategy \in MitigationStrategy, fairlearn \in BOOLEAN, fit_raises \in BOOLEAN,
       original \in [rates : FairRates, eo_diff : OddsValues],
       mitigated \in [rates : FairRates, eo_diff : OddsValues] :
        MitigateBias(strategy, fairlearn, fit_raises, original, mitigated)

Next ==
    \/ NextAB \/ NextAlert \/ NextRetrain \/ NextDecide \/ NextSched
    \/ NextBaseline \/ NextBaselineCheck \/ NextDrift \/ NextBias \/ NextFair
    \/ NextAnalysis \/ NextEvaluate \/ NextSchedFlag

Spec == Init /\ [][Next]_vars
SpecAB == Init /\ [][NextAB]_vars
SpecABTraffic == Init /\ [][NextABTraffic]_vars
SpecAlert == Init /\ [][NextAlert]_vars
SpecAlertCreate == Init /\ [][NextAlertCreate]_vars
SpecRetrain == Init /\ [][NextRetrain]_vars
SpecDecide == Init /\ [][NextDecide]_vars
SpecSched == Init /\ [][NextSched]_vars
SpecSchedFlag == Init /\ [][NextSchedFlag]_vars
SpecBaseline == Init /\ [][NextBaseline]_vars
SpecBaselineCheck == Init /\ [][NextBaselineCheck]_vars
SpecAnalysis == InitAnalysis /\ [][NextAnalysis]_vars
SpecEvaluate == Init /\ [][NextEvaluate]_vars
SpecDrift == Init /\ [][NextDrift]_vars
SpecBias == Init /\ [][NextBias]_vars
SpecFair == Init /\ [][NextFair]_vars

\* the two services whose calls await work, the retraining pipeline and the
\* scheduler, with the clock stopped.  They share no state, so a behaviour of
\* both is an interleaving of a behaviour of each; SpecLive runs one of them:
\* the pipeline as long as the scheduler has not been used, and the reverse.
\* A run_pipeline call touches the one job it is given, so SpecLive follows
\* the calls made for one retrain job
PipelineOnly == schedJobs = << >> /\ \A c \in Calls : callPc[c] = "idle"
SchedulerOnly == jobs = << >> /\ \A r \in Runs : runPc[r] = "idle"

NextLive ==
    \/ PipelineOnly /\ jobs = << >> /\ \E config \in RetrainConfig : TriggerRetraining(config)
    \/ PipelineOnly /\ \E r \in Runs, j \in JobIds : RunPipeline(r, j)
    \/ \E r \in Runs : RunResume(r)
    \/ \E r \in Runs : RunStageRaises(r)
    \/ SchedulerOnly /\ \E job_type \in CreatedTypes : CreateJob(job_type)
    \/ SchedulerOnly /\ \E c \in Calls, j \in SchedJobIds : RunJob(c, j)
    \/ \E c \in Calls : HandlerReturns(c)
    \/ \E c \in Calls : HandlerRaises(c)

\* the work a call awaits (the sleep of a stage, the handler of a job) ends:
\* it returns or it raises
AwaitsEnd ==
    /\ \A r \in Runs : WF_vars(RunResume(r) \/ RunStageRaises(r))
    /\ \A c \in Calls : WF_vars(HandlerReturns(c) \/ HandlerRaises(c))

SpecLive == Init /\ [][NextLive]_vars /\ AwaitsEnd

\* the three services whose operations take the id of a stored record, one
\* service in a behaviour: they share no state.  The A/B tests get no traffic
ABOnly == PipelineOnly /\ SchedulerOnly
ABUnused == tests = << >> /\ abLast.op = "__init__"

NextById ==
    \/ ABOnly /\ \E config \in ABTestConfig : CreateTest(config)
    \/ ABOnly /\ \E t \in TestIds : StartTest(t)
    \/ ABOnly /\ \E t \in TestIds : EvaluateTest(t)
    \/ ABOnly /\ \E t \in TestIds : ConcludeTest(t, "NO_SIGNIFICANT_DIFFERENCE")
    \/ ABOnly /\ \E t \in TestIds : AbortTest(t)
    \/ ABUnused /\ PipelineOnly /\ jobs = << >> /\ \E config \in RetrainConfig : TriggerRetraining(config)
    \/ ABUnused /\ PipelineOnly /\ \E r \in Runs, j \in JobIds : RunPipeline(r, j)
    \/ \E r \in Runs : RunResume(r)
    \/ \E r \in Runs : RunStageRaises(r)
    \/ ABUnused /\ SchedulerOnly /\ \E job_type \in CreatedTypes : CreateJob(job_type)
    \/ ABUnused /\ SchedulerOnly /\ \E c \in Calls, j \in SchedJobIds : RunJob(c, j)
    \/ \E c \in Calls : HandlerReturns(c)
    \/ \E c \in Calls : HandlerRaises(c)
    \/ ABUnused /\ SchedulerOnly /\ \E j \in SchedJobIds : DeleteJob(j)

SpecById == Init /\ [][NextById]_vars

\* ================================================================ claims
\* ---- A/B testing

RunningTests == {t \in DOMAIN tests : tests[t].status = "RUNNING"}

\* C1: in every reachable state of the A/B testing service at most one test
\* has status RUNNING.
C1_AtMostOneRunning == Cardinality(RunningTests) <= 1

\* a test is RUNNING and the start of another stored test has just been refused
C1_Witness ==
    /\ Cardinality(RunningTests) = 1
    /\ abLast.op = "start_test"
    /\ abLast.out = AnotherRunning
    /\ abLast.id[1] \in DOMAIN tests \ RunningTests

\* the step is a call start_test(t)
IsStartTest(t) ==
    /\ abLast' # abLast
    /\ abLast'.op = "start_test"
    /\ abLast'.id = Some(t)

\* C2: start_test(t) of a stored test t, called while the active-test slot
\* holds another test id, fails with the error "Another test is already
\* running" and changes neither a test (status, started_at of t or of the
\* other test) nor the active-test slot.
C2_StartConflictRefused ==
    [][\A t \in DOMAIN tests :
          (IsStartTest(t) /\ activeTest # None /\ activeTest # Some(t))
              => /\ abLast'.out = AnotherRunning
                 /\ tests' = tests
                 /\ activeTest' = activeTest]_vars

\* the start of a test that never ran has just been refused while another
\* test is RUNNING
C2_Witness ==
    /\ abLast.op = "start_test"
    /\ abLast.out = AnotherRunning
    /\ abLast.id[1] \in DOMAIN tests
    /\ tests[abLast.id[1]].status = "DRAFT"
    /\ tests[abLast.id[1]].started_at = None
    /\ activeTest # None
    /\ activeTest # abLast.id
    /\ tests[activeTest[1]].status = "RUNNING"

\* ---- alerts

\* the step is the run of the create_alert call of caller c
IsCreateAlert(c) == alertPc[c] = "pending" /\ alertPc'[c] = "done"

\* the stored alerts with the key of data created less than the window ago
RecentSameKey(data) ==
    {a \in DOMAIN alerts : SameKey(alerts[a], data) /\ now - alerts[a].created_at < DedupWindow}

RecentActiveSameKey(data) == {a \in RecentSameKey(data) : alerts[a].status = "ACTIVE"}

\* the call of c returns a stored alert of S and stores nothing
Deduplicated(c, S) ==
    /\ alerts' = alerts
    /\ alertRet'[c] # None
    /\ alertRet'[c][1].alert \in S
    /\ ~alertRet'[c][1].created

\* the call of c stores one new ACTIVE alert made from data, and returns it
StoredNew(c, data) ==
    \E a \in DOMAIN alerts' \ DOMAIN alerts :
        /\ DOMAIN alerts' = DOMAIN alerts \cup {a}
        /\ \A b \in DOMAIN alerts : alerts'[b] = alerts[b]
        /\ SameKey(alerts'[a], data)
        /\ alerts'[a].status = "ACTIVE"
        /\ alerts'[a].created_at = now
        /\ alertRet'[c] = Some([alert |-> a, created |-> TRUE])

\* C3 as stated: create_alert returns the stored alert, and stores nothing,
\* whenever an alert with the same key was created less than the window ago;
\* once the window has elapsed since the creation of the alerts with that key
\* it stores a second, new ACTIVE alert.
C3_Original ==
    [][\A c \in Callers : IsCreateAlert(c) =>
          LET data == alertData[c][1]
          IN /\ RecentSameKey(data) # {} => Deduplicated(c, RecentSameKey(data))
             /\ RecentSameKey(data) = {} => StoredNew(c, data)]_vars

\* C3 (amended): create_alert returns the stored alert, stores nothing and
\* leaves every created_at unchanged whenever an ACTIVE alert with the same
\* key was created less than the window ago; when no ACTIVE alert with that
\* key is that recent (the window has elapsed) it stores a new ACTIVE alert
\* created now.
C3_DedupActiveInWindow ==
    [][\A c \in Callers : IsCreateAlert(c) =>
          LET data == alertData[c][1]
          IN /\ RecentActiveSameKey(data) # {} => Deduplicated(c, RecentActiveSameKey(data))
             /\ RecentActiveSameKey(data) = {} => StoredNew(c, data)]_vars

\* a second alert has been stored for a key once the window of the first had
\* elapsed, and a later call inside the window of the second returned the second
C3_Witness ==
    \E c \in Callers, a, b \in DOMAIN alerts :
        /\ a # b
        /\ SameKey(alerts[a], alerts[b])
        /\ alerts[b].created_at - alerts[a].created_at >= DedupWindow
        /\ alertPc[c] = "done"
        /\ SameKey(alertData[c][1], alerts[b])
        /\ alertRet[c] = Some([alert |-> b, created |-> FALSE])

Distance(x, y) == IF x < y THEN y - x ELSE x - y

\* C4: two create_alert calls in flight together with the same key never both
\* store a new alert inside the window: they return the same alert, or alerts
\* created at least one window apart.
C4_ConcurrentCreatesStoreOne ==
    \A c, d \in Callers :
        (/\ c # d
         /\ alertPc[c] = "done" /\ alertPc[d] = "done"
         /\ alertOverlap[c] /\ alertOverlap[d]
         /\ SameKey(alertData[c][1], alertData[d][1]))
            => \/ alertRet[c][1].alert = alertRet[d][1].alert
               \/ Distance(alerts[alertRet[c][1].alert].created_at,
                           alerts[alertRet[d][1].alert].created_at) >= DedupWindow

\* two calls with the same key were in flight together; one stored the alert
\* and the other returned it
C4_Witness ==
    \E c, d \in Callers :
        /\ c # d
        /\ alertPc[c] = "done" /\ alertPc[d] = "done"
        /\ alertOverlap[c] /\ alertOverlap[d]
        /\ SameKey(alertData[c][1], alertData[d][1])
        /\ alertRet[c][1].created
        /\ alertRet[d] = Some([alert |-> alertRet[c][1].alert, created |-> FALSE])

\* ---- retraining

Stages == {"DATA_PREPARATION", "TRAINING", "VALIDATION", "COMPARISON"}
Terminal == {"COMPLETED", "REJECTED", "FAILED"}

\* the status changes the retraining state machine allows
AllowedTransitions ==
    { <<"PENDING", "DATA_PREPARATION">>, <<"DATA_PREPARATION", "TRAINING">>,
      <<"TRAINING", "VALIDATION">>, <<"VALIDATION", "COMPARISON">>,
      <<"COMPARISON", "COMPLETED">>, <<"COMPARISON", "REJECTED">> }
    \cup {<<s, "FAILED">> : s \in {"PENDING"} \cup Stages}

\* C5: a retrain job's status changes only along PENDING -> DATA_PREPARATION
\* -> TRAINING -> VALIDATION -> COMPARISON -> {COMPLETED, REJECTED}, one stage
\* at a time, or from a stage to FAILED.
C5_SequentialStatus ==
    [][\A j \in DOMAIN jobs :
          jobs'[j].status # jobs[j].status
              => <<jobs[j].status, jobs'[j].status>> \in AllowedTransitions]_vars

\* C6: once a retrain job is COMPLETED, REJECTED or FAILED no later operation,
\* another run_pipeline call for its id included, changes its status,
\* progress, metrics, new_model_id or error.
C6_TerminalIsFinal ==
    [][\A j \in DOMAIN jobs :
          jobs[j].status \in Terminal
              => /\ jobs'[j].status = jobs[j].status
                 /\ jobs'[j].progress = jobs[j].progress
                 /\ jobs'[j].metrics = jobs[j].metrics
                 /\ jobs'[j].new_model_id = jobs[j].new_model_id
                 /\ jobs'[j].error = jobs[j].error]_vars

\* the step is run r catching an exception of the stage it awaits
IsStageRaise(r) ==
    /\ runPc[r] \in {"data_preparation", "training", "validation", "comparison"}
    /\ runRet'[r].caught # None

\* C7: when a stage of run_pipeline raises, the call sets the job FAILED with
\* the exception text in error, runs no later stage (every other field of the
\* job stays as the failing stage left it, and the call is over) and returns
\* the job instead of raising.
C7_StageFailureRecorded ==
    [][\A r \in Runs : IsStageRaise(r) =>
          LET j == runJob[r][1]
          IN /\ jobs'[j] = [jobs[j] EXCEPT !.status = "FAILED",
                                            !.error = runRet'[r].caught]
             /\ runPc'[r] = "returned"
             /\ ~runRet'[r].raised
             /\ runRet'[r].value = "job"]_vars

\* a run has caught the exception of its training stage and returned the job,
\* which is FAILED, carries the error and never reached VALIDATION
C7_Witness ==
    \E r \in Runs :
        /\ runPc[r] = "returned"
        /\ runRet[r].caught = Some(<<"error in", "training">>)
        /\ ~runRet[r].raised
        /\ jobs[runJob[r][1]].status = "FAILED"
        /\ jobs[runJob[r][1]].error = runRet[r].caught
        /\ jobs[runJob[r][1]].progress = 4
        /\ jobs[runJob[r][1]].metrics = None

\* the decision stage has run on the job
Decided(job) == job.status \in {"COMPLETED", "REJECTED"}

\* the improvement of the candidate over the incumbent on the primary metric
Improvement(job) ==
    job.comparison_result[1].new_model[1].f1 - job.comparison_result[1].current_model.f1

\* C8: a retrain job whose status is REJECTED has no new_model_id, and a job
\* whose candidate is not better than the incumbent (its improvement is below
\* min_improvement_threshold) ends REJECTED with no new model id attached.
C8_RejectedHasNoModel ==
    \A j \in DOMAIN jobs :
        /\ jobs[j].status = "REJECTED" => jobs[j].new_model_id = None
        /\ (Decided(jobs[j]) /\ Improvement(jobs[j]) < jobs[j].config.min_improvement_threshold)
              => (jobs[j].status = "REJECTED" /\ jobs[j].new_model_id = None)

\* C9: the verdict of the COMPARISON stage says the candidate is better iff
\* its improvement on the primary metric is at least
\* config.min_improvement_threshold.
C9_VerdictFromThreshold ==
    \A j \in DOMAIN jobs :
        jobs[j].comparison_result # None
            => LET comparison == jobs[j].comparison_result[1]
               IN (comparison.is_better /\ comparison.passes_threshold)
                      <=> (comparison.improvement.f1 >= jobs[j].config.min_improvement_threshold)

\* the step is run r going through _step_decision
IsDecision(r) == runPc[r] = "comparison" /\ runPc'[r] = "returned" /\ runRet'[r].caught = None

CompletedWithCandidate(job) ==
    /\ job.status = "COMPLETED"
    /\ job.progress = 10
    /\ job.completed_at # None
    /\ job.new_model_id # None
    /\ job.current_step = IF job.config.auto_promote
                           THEN "New model promoted to production"
                           ELSE "Awaiting manual approval"

\* C10: the decision stage ends a job whose candidate is better COMPLETED,
\* with progress 1.0, completed_at set, a new_model_id attached and the step
\* label of its auto_promote setting; and whenever a job is COMPLETED it has
\* all of these.
C10_CompletedHasCandidate ==
    /\ [](\A j \in DOMAIN jobs : jobs[j].status = "COMPLETED" => CompletedWithCandidate(jobs[j]))
    /\ [][\A r \in Runs : IsDecision(r) =>
            LET j == runJob[r][1]
            IN (jobs[j].comparison_result[1].is_better
                    /\ jobs[j].comparison_result[1].passes_threshold)
                   => CompletedWithCandidate(jobs'[j])]_vars

\* a job without auto_promote has been decided: it awaits manual approval
\* with the candidate's id attached
C10_Witness ==
    \E j \in DOMAIN jobs :
        /\ ~jobs[j].config.auto_promote
        /\ jobs[j].status = "COMPLETED"
        /\ jobs[j].current_step = "Awaiting manual approval"
        /\ jobs[j].new_model_id # None

\* ---- the retraining trigger

\* what the trigger policy prescribes for the statuses d (drift), p
\* (performance) and b (bias): whether to retrain, and the reasons allowed
Prescribed(d, p, b) ==
    IF b = "CRITICAL" THEN [retrain |-> TRUE, reasons |-> {"BIAS_DETECTED"}]
    ELSE IF p = "CRITICAL" THEN [retrain |-> TRUE, reasons |-> {"PERFORMANCE_DEGRADATION"}]
    ELSE IF d = "CRITICAL" \/ (d = "WARNING" /\ p = "WARNING")
         THEN [retrain |-> TRUE, reasons |-> {"DRIFT_DETECTED"}]
    ELSE [retrain |-> FALSE,
          reasons |-> {"BIAS_DETECTED", "PERFORMANCE_DEGRADATION", "DRIFT_DETECTED", "MANUAL"}]

\* C11: for every drift, performance and bias status in {OK, WARNING,
\* CRITICAL} should_retrain returns (True, BIAS_DETECTED) when bias is
\* CRITICAL; otherwise (True, PERFORMANCE_DEGRADATION) when performance is
\* CRITICAL; otherwise (True, DRIFT_DETECTED) when drift is CRITICAL or drift
\* and performance are both WARNING; and False in every other case.
C11_TriggerPriority ==
    decision # None
        => LET call == decision[1]
               want == Prescribed(call.drift_status, call.performance_status, call.bias_status)
           IN /\ call.returned.retrain = want.retrain
              /\ call.returned.reason \in want.reasons

\* should_retrain has answered BIAS_DETECTED although performance and drift
\* were CRITICAL too
C11_Witness ==
    /\ decision # None
    /\ decision[1].bias_status = "CRITICAL"
    /\ decision[1].performance_status = "CRITICAL"
    /\ decision[1].drift_status = "CRITICAL"
    /\ decision[1].returned = [retrain |-> TRUE, reason |-> "BIAS_DETECTED"]

\* ---- A/B testing: ending, routing and evaluating a test

\* the step is a call op(t) of the A/B testing service (every step of the
\* service records the call it is in abLast)
ABStep(op, t) == abLast'.op = op /\ abLast'.id = Some(t)

Ended == {"COMPLETED", "ABORTED"}

\* C12: abort_test or conclude_test on the active test empties the
\* active-test slot (get_active_test returns none), and a start_test of
\* another stored test that follows it succeeds and makes that test RUNNING.
C12_EndFreesSlot ==
    [][\A t \in DOMAIN tests :
          /\ ((ABStep("abort_test", t) \/ ABStep("conclude_test", t)) /\ activeTest = Some(t))
                => /\ activeTest' = None
                   /\ ~(activeTest' # None /\ activeTest'[1] \in DOMAIN tests')
          /\ \A u \in DOMAIN tests \ {t} :
                (/\ abLast.op \in {"abort_test", "conclude_test"}
                 /\ abLast.id = Some(t)
                 /\ abLast.out = "ok"
                 /\ tests[t].status \in Ended
                 /\ activeTest = None
                 /\ ABStep("start_test", u))
                    => /\ abLast'.out = "ok"
                       /\ tests'[u].status = "RUNNING"
                       /\ activeTest' = Some(u)]_vars

\* a draft test has been started right after the abort of a test that had been
\* started before it
C12_Witness ==
    \E t, u \in DOMAIN tests :
        /\ t # u
        /\ tests[t].status = "ABORTED"
        /\ tests[t].started_at # None
        /\ abLast = ABCall("start_test", Some(u), "ok")
        /\ tests[u].status = "RUNNING"
        /\ tests[u].champion_samples + tests[u].challenger_samples = 0
        /\ activeTest = Some(u)
        /\ GetActiveTest = Some(u)

\* C13: COMPLETED and ABORTED are terminal: once a test is concluded or
\* aborted no later start_test, conclude_test, abort_test, route_request or
\* evaluate_test changes its status.
C13_EndedIsFinal ==
    [][\A t \in DOMAIN tests :
          tests[t].status \in Ended => tests'[t].status = tests[t].status]_vars

\* C14: conclude_test called on a test that is DRAFT, COMPLETED or ABORTED
\* changes neither the status, the result nor ended_at of the test.
C14_ConcludeOnlyWhileRunning ==
    [][\A t \in DOMAIN tests :
          (ABStep("conclude_test", t) /\ tests[t].status \in {"DRAFT", "COMPLETED", "ABORTED"})
              => /\ tests'[t].status = tests[t].status
                 /\ tests'[t].result = tests[t].result
                 /\ tests'[t].ended_at = tests[t].ended_at]_vars

\* the test a route_request(test_id) step is for
Routed == IF abLast'.id # None THEN abLast'.id ELSE activeTest

Samples(test) == <<test.champion_samples, test.challenger_samples>>

\* C15: a route_request for a RUNNING test returns the champion or the
\* challenger model id and adds one to the matching sample counter, leaving
\* the other counter alone; no other step changes a counter, so after N such
\* calls, in whatever order, the two counters have grown by N together.
C15_RouteCountsOne ==
    [][\A t \in DOMAIN tests :
          IF abLast'.op = "route_request" /\ Routed = Some(t) /\ tests[t].status = "RUNNING"
          THEN \/ /\ abLast'.out = "champion_model_id"
                  /\ Samples(tests'[t]) = <<tests[t].champion_samples + 1, tests[t].challenger_samples>>
               \/ /\ abLast'.out = "challenger_model_id"
                  /\ Samples(tests'[t]) = <<tests[t].champion_samples, tests[t].challenger_samples + 1>>
          ELSE Samples(tests'[t]) = Samples(tests[t])]_vars

\* a RUNNING test has just been routed a request, and it has counted requests
\* for the champion and for the challenger
C15_Witness ==
    \E t \in DOMAIN tests :
        /\ tests[t].status = "RUNNING"
        /\ abLast.op = "route_request"
        /\ abLast.out = "challenger_model_id"
        /\ tests[t].champion_samples >= 1
        /\ tests[t].challenger_samples >= 1

Evaluated(test) == <<test.champion_metrics, test.challenger_metrics, test.statistical_analysis>>

\* C16: evaluate_test makes the statistical comparison only when
\* champion_samples + challenger_samples >= config.min_samples; below that it
\* reports ready_for_decision = false with the number of samples still needed
\* and leaves the metrics and the analysis of the test unchanged.
C16_EvaluateNeedsMinimum ==
    [][\A t \in DOMAIN tests :
          ABStep("evaluate_test", t) =>
              LET total == tests[t].champion_samples + tests[t].challenger_samples
                  min_samples == tests[t].config.min_samples
              IN IF total >= min_samples
                 THEN /\ abLast'.out = "ready_for_decision"
                      /\ tests'[t].statistical_analysis # None
                      /\ tests'[t].champion_metrics # None
                      /\ tests'[t].challenger_metrics # None
                 ELSE /\ abLast'.out = "not ready_for_decision"
                      /\ abLast'.samples_collected = total
                      /\ abLast'.message = <<"Need", min_samples - total, "more samples">>
                      /\ Evaluated(tests'[t]) = Evaluated(tests[t])]_vars

\* a test exactly at its minimum has been compared, and another test, short
\* of samples, has just been told how many it still needs
C16_Witness ==
    \E t, u \in DOMAIN tests :
        /\ tests[t].champion_samples + tests[t].challenger_samples = tests[t].config.min_samples
        /\ tests[t].statistical_analysis # None
        /\ abLast.op = "evaluate_test"
        /\ abLast.id = Some(u)
        /\ abLast.out = "not ready_for_decision"
        /\ abLast.message[2] >= 1
        /\ Evaluated(tests[u]) = <<None, None, None>>

\* ---- alerts: acknowledging and resolving

\* the step is a call acknowledge_alert(a, .) that found the alert ACTIVE or
\* found no alert (a call that finds the alert ACTIVE always changes alertLast)
IsAcknowledge(a) ==
    /\ alertLast' # alertLast
    /\ alertLast'.op = "acknowledge_alert"
    /\ alertLast'.id = a

\* C17: acknowledge_alert on a stored ACTIVE alert sets its status to
\* ACKNOWLEDGED and records acknowledged_by and acknowledged_at, changing
\* nothing else; on an unknown id it returns none and no stored alert changes.
C17_AcknowledgeRecords ==
    [][\A a \in AlertIds : IsAcknowledge(a) =>
          IF a \in DOMAIN alerts
          THEN alerts[a].status = "ACTIVE"
                  => /\ alerts' = [alerts EXCEPT
                            ![a] = [alerts[a] EXCEPT !.status = "ACKNOWLEDGED",
                                                     !.acknowledged_by = Some(alertLast'.user_id),
                                                     !.acknowledged_at = Some(now)]]
                     /\ alertLast'.out = "alert"
          ELSE /\ alertLast'.out = "None"
               /\ alerts' = alerts]_vars

\* an alert created an hour ago has just been acknowledged: it carries the
\* user and the time of the call
C17_Witness ==
    \E a \in DOMAIN alerts :
        /\ alertLast.op = "acknowledge_alert"
        /\ alertLast.id = a
        /\ alertLast.out = "alert"
        /\ alerts[a].status = "ACKNOWLEDGED"
        /\ alerts[a].acknowledged_by = Some(alertLast.user_id)
        /\ alerts[a].acknowledged_at = Some(now)
        /\ alerts[a].created_at < now
        /\ alerts[a].resolved_at = None

\* the status changes the alert lifecycle allows
AlertForward ==
    {<<"ACTIVE", "ACKNOWLEDGED">>, <<"ACTIVE", "RESOLVED">>, <<"ACKNOWLEDGED", "RESOLVED">>}

\* C18: an alert's status only moves forward ACTIVE -> ACKNOWLEDGED ->
\* RESOLVED (acknowledge_alert changes it only from ACTIVE, resolve_alert only
\* from a status that is not RESOLVED), and once an alert is RESOLVED no call
\* changes its status or resolved_at.
C18_AlertStatusForward ==
    [][\A a \in DOMAIN alerts :
          /\ alerts'[a].status # alerts[a].status
                => <<alerts[a].status, alerts'[a].status>> \in AlertForward
          /\ alerts[a].status = "RESOLVED"
                => alerts'[a].resolved_at = alerts[a].resolved_at]_vars

\* ---- scheduler

\* the step is the return of run_job call c after its handler ended
IsHandlerEnd(c) == callPc[c] = "handler" /\ callPc'[c] = "returned"

\* C19: run_job on a stored job: if the handler returns, the run ends
\* COMPLETED with the handler's result and the job is COMPLETED; if the
\* handler raises, the run ends FAILED with the error text, the job is FAILED
\* and the call returns the run instead of raising; in both cases the job's
\* last_run is the run's completed_at and next_run is later than last_run.
C19_RunJobRecordsOutcome ==
    [][\A c \in Calls : IsHandlerEnd(c) =>
          LET run == schedRuns'[callRun[c][1]]
              job == schedJobs'[run.job_id]
          IN /\ ~callRet'[c].raised
             /\ callRet'[c].value \in {"handler returned", "handler raised"}
             /\ callRet'[c].value = "handler returned"
                   => /\ run.status = "COMPLETED"
                      /\ run.result = Some(HandlerResult(run.job_type))
                      /\ run.error = None
                      /\ job.status = "COMPLETED"
             /\ callRet'[c].value = "handler raised"
                   => /\ run.status = "FAILED"
                      /\ run.error = Some(<<"error in handler", run.job_type>>)
                      /\ run.result = None
                      /\ job.status = "FAILED"
             /\ run.completed_at = Some(now)
             /\ job.last_run = run.completed_at
             /\ job.next_run > job.last_run[1]]_vars

\* a run started an hour ago has ended with its handler raising: run and job
\* are FAILED, the call returned, and the job is due again later
C19_Witness ==
    \E c \in Calls :
        /\ callPc[c] = "returned"
        /\ callRet[c] = [raised |-> FALSE, value |-> "handler raised"]
        /\ LET run == schedRuns[callRun[c][1]]
               job == schedJobs[run.job_id]
           IN /\ run.status = "FAILED"
              /\ run.error # None
              /\ run.started_at < now
              /\ run.completed_at = Some(now)
              /\ job.status = "FAILED"
              /\ job.last_run = Some(now)
              /\ job.next_run > now

\* ---- termination

InFlight(r) == runPc[r] \notin {"idle", "returned"}

\* every run_pipeline call made for job j has returned, and one has run it
PipelineCallsOver(j) ==
    /\ \A r \in Runs : runJob[r] = Some(j) => ~InFlight(r)
    /\ \E r \in Runs : runJob[r] = Some(j) /\ runPc[r] = "returned" /\ ~runRet[r].raised

\* run_pipeline call r has returned the job, and the job is terminal
PipelineEnded(r) ==
    /\ runPc[r] = "returned"
    /\ ~runRet[r].raised
    /\ jobs[runJob[r][1]].status \in Terminal

\* the JobRun of run_job call c is over
RunOver(c) ==
    /\ callRun[c] # None
    /\ schedRuns[callRun[c][1]].status \in {"COMPLETED", "FAILED"}

\* C20: when the work a call awaits always ends (it returns or raises), every
\* run_job call and every run_pipeline call in flight finishes, and finishes
\* with its entity terminal: the JobRun of a returned run_job call is
\* COMPLETED or FAILED, and a RetrainJob whose run_pipeline calls have
\* returned is COMPLETED, REJECTED or FAILED.
C20_CallsEndTerminal ==
    /\ \A r \in Runs : InFlight(r) ~> PipelineEnded(r)
    /\ \A c \in Calls : (callPc[c] = "handler") ~> (callPc[c] = "returned" /\ RunOver(c))
    /\ [](\A j \in DOMAIN jobs : PipelineCallsOver(j) => jobs[j].status \in Terminal)
    /\ [](\A c \in Calls : (callPc[c] = "returned" /\ ~callRet[c].raised) => RunOver(c))

\* two run_pipeline calls for one job overlapped; the stage one of them
\* awaited raised, the other went through the decision, and now both have
\* returned and the job is terminal
C20_Witness ==
    \E r, q \in Runs :
        /\ r # q
        /\ runJob[r] = runJob[q]
        /\ PipelineEnded(r) /\ PipelineEnded(q)
        /\ runRet[r].caught # None
        /\ runRet[q].caught = None
        /\ jobs[runJob[r][1]].status = "FAILED"
        /\ jobs[runJob[r][1]].completed_at # None

\* ---- baselines
\* the steps that are a check_baselines call
IsCheck == checkRet' # checkRet

Names(message, metric_name) == \E k \in 1..Len(message) : message[k] = metric_name

\* C21: check_baselines returns exactly one result per baseline of the model,
\* in the order of the baselines; the result of a baseline whose metric is not
\* in the current metrics has passed = false and a message that names the
\* metric: no baseline is left out.
C21_OneResultPerBaseline ==
    [][IsCheck =>
        LET call == checkRet'[1]
            found == GetBaselines(call.model_id)
        IN  /\ Len(call.results) = Len(found)
            /\ \A i \in 1..Len(found) :
                 /\ i <= Len(call.results)
                 /\ call.results[i].metric = found[i].metric_name
                 /\ call.results[i].threshold = found[i].threshold
                 /\ call.results[i].operator = found[i].operator
                 /\ found[i].metric_name \notin DOMAIN call.current_metrics
                      => /\ ~call.results[i].passed
                         /\ Names(call.results[i].message, found[i].metric_name)]_vars

\* a check of two baselines, the metric of one of them missing
C21_Witness ==
    /\ checkRet # None
    /\ Len(GetBaselines(checkRet[1].model_id)) = 2
    /\ Len(checkRet[1].results) = 2
    /\ checkRet[1].results[1].metric \notin DOMAIN checkRet[1].current_metrics
    /\ ~checkRet[1].results[1].passed
    /\ checkRet[1].results[2].metric \in DOMAIN checkRet[1].current_metrics
    /\ checkRet[1].results[2].passed

\* the severity of the configuration a stored baseline was made from
ConfiguredSeverity(b) == setTx[b.id[1]][1].baselines[b.id[2]].severity

\* C22: the severity of every result of check_baselines is the severity the
\* baseline was configured with when it was set, whether the check passed,
\* failed or found the metric missing.
C22_SeverityAsConfigured ==
    [][IsCheck =>
        LET call == checkRet'[1]
            found == GetBaselines(call.model_id)
        IN  \A i \in 1..Len(found) :
                call.results[i].severity = ConfiguredSeverity(found[i])]_vars

\* the steps at which a set_baselines call returns, and at which it raises
SetReturns(c) == setPc[c] # "done" /\ setPc'[c] = "done"
SetFails(c) == setPc[c] # "failed" /\ setPc'[c] = "failed"

StoredAfter(model_id) == SelectSeq(baselines', LAMBDA b : b.model_id = model_id)

\* C23: set_baselines(model, S) replaces all and is atomic: when it returns,
\* the baselines stored for the model are exactly those of S, the baselines of
\* every other model are as they were, and a call that fails changes nothing,
\* whatever other set_baselines calls run at the same time.
C23_AtomicReplaceAll ==
    [][\A c \in BCalls :
        /\ SetReturns(c) =>
             /\ StoredAfter(setTx[c][1].model_id) = Created(c)
             /\ \A m \in BModels \ {setTx[c][1].model_id} : StoredAfter(m) = GetBaselines(m)
        /\ SetFails(c) => baselines' = baselines]_vars

TwoForOneMetric(configs) ==
    \E i, j \in 1..Len(configs) : i # j /\ configs[i].metric = configs[j].metric

\* C24: a set_baselines call given two configurations for one metric is
\* refused (it does not return its rows) and stores nothing, so no model has
\* two stored baselines for one metric.
C24_DuplicateMetricRefused ==
    /\ \A c \in BCalls : setPc[c] = "done" => ~TwoForOneMetric(setTx[c][1].baselines)
    /\ \A i, j \in 1..Len(baselines) :
         baselines[i].model_id = baselines[j].model_id
           /\ baselines[i].metric_name = baselines[j].metric_name => i = j

\* ---- drift
Worst(statuses) ==
    IF "CRITICAL" \in statuses THEN "CRITICAL"
    ELSE IF "WARNING" \in statuses THEN "WARNING"
    ELSE "OK"

\* C25: the aggregate status of a drift check is the worst of the statuses of
\* its features; it is OK exactly when every feature is OK, that is when the
\* count of drifted features is zero.
C25_OverallIsWorstFeature ==
    driftRet # None /\ ~driftRet[1].raised =>
        LET r == driftRet[1].value
        IN  /\ r.overall_status = Worst({r.metrics[i].status : i \in 1..Len(r.metrics)})
            /\ r.overall_status = "OK" <=> r.drifted_features = 0

AlertsOf(r, feature) == SelectSeq(r.alerts, LAMBDA a : a.feature = feature)

\* C26: a drift check emits exactly one alert for each feature whose status
\* is WARNING or CRITICAL and none for a feature whose status is OK.
C26_OneAlertPerDriftedFeature ==
    driftRet # None /\ ~driftRet[1].raised =>
        LET r == driftRet[1].value
        IN  \A i \in 1..Len(r.metrics) :
                Len(AlertsOf(r, r.metrics[i].feature)) =
                    IF r.metrics[i].status = "OK" THEN 0 ELSE 1

\* ---- bias
\* the parity difference and the comparisons of the disparate impact, taken
\* from the group rates without dividing
ParityDiff(r) == MaxOf(r.group_rates) - MinOf(r.group_rates)
ImpactBelow(r, limit) ==
    MaxOf(r.group_rates) > 0 /\ MinOf(r.group_rates) * 1000 < limit * MaxOf(r.group_rates)

C28_NoBackendReturnsOriginal ==
    fairRet # None /\ ~fairRet[1].call.fairlearn =>
        /\ ~fairRet[1].ret.raised
        /\ fairRet[1].ret.value.mitigated_metrics = fairRet[1].ret.value.original_metrics

\* a grid search asked for without fairlearn
C28_Witness ==
    /\ fairRet # None
    /\ ~fairRet[1].call.fairlearn
    /\ fairRet[1].call.strategy = "GRID_SEARCH"
    /\ ~fairRet[1].ret.raised
    /\ fairRet[1].ret.value.strategy = "GRID_SEARCH"
    /\ fairRet[1].ret.value.original_metrics.demographic_parity_difference > 0

\* ---- unknown ids
\* C29: an operation given an id that no stored record has raises a not-found
\* error and changes nothing: start_test, evaluate_test, conclude_test and
\* abort_test leave the tests and the active-test slot as they were, run_job
\* creates no JobRun and changes no job, run_pipeline changes no retrain job.
C29_UnknownIdChangesNothing ==
    [][/\ \A t \in TestIds \ DOMAIN tests :
            StartTest(t) \/ EvaluateTest(t) \/ AbortTest(t)
              \/ (\E result \in ConcludeResults : ConcludeTest(t, result))
            => abLast'.out = NotFound /\ tests' = tests /\ activeTest' = activeTest
       /\ \A c \in Calls, j \in SchedJobIds \ StoredJobs :
            RunJob(c, j)
            => /\ callRet'[c] = [raised |-> TRUE, value |-> SchedJobNotFound]
               /\ schedRuns' = schedRuns /\ schedJobs' = schedJobs
       /\ \A r \in Runs, j \in JobIds \ DOMAIN jobs :
            RunPipeline(r, j)
            => /\ runRet'[r].raised /\ runRet'[r].value = JobNotFound
               /\ jobs' = jobs]_vars

\* a test is running and an operation on another, unknown, id was refused
C29_Witness ==
    /\ activeTest # None
    /\ abLast.id # None
    /\ abLast.id # activeTest
    /\ abLast.id[1] \notin DOMAIN tests
    /\ abLast.op \in {"start_test", "conclude_test"}
    /\ abLast.out = NotFound

\* ---- A/B testing: the PAUSED status
\* C30: PAUSED can be reached from RUNNING and is not final: a RUNNING test can
\* be taken to PAUSED by an operation of the service, and a PAUSED test can
\* still be concluded or aborted.
C30_PausedReachable ==
    \A t \in DOMAIN tests :
        /\ tests[t].status = "RUNNING" => ENABLED (NextAB /\ tests'[t].status = "PAUSED")
        /\ tests[t].status = "PAUSED" =>
             ENABLED (NextAB /\ tests'[t].status \in {"COMPLETED", "ABORTED"})

\* no operation of the service assigns PAUSED
NeverPaused == \A t \in DOMAIN tests : tests[t].status # "PAUSED"

\* ---- retraining: progress
\* C31: the progress of a retrain job stays within [0, 1] and never
\* decreases over the life of the job: it is 0 when the job is triggered and
\* no step of any run_pipeline call lowers it.
C31_ProgressMonotone ==
    [][/\ \A j \in DOMAIN jobs' \ DOMAIN jobs : jobs'[j].progress = 0
       /\ \A j \in DOMAIN jobs :
            /\ jobs'[j].progress \in 0..10
            /\ jobs'[j].progress >= jobs[j].progress]_vars

\* ---- scheduler: history, the enabled flag, unregistered types, overlap
RunsOf(runs, job_id) == {runs[r] : r \in {q \in DOMAIN runs : runs[q].job_id = job_id}}
Returned(runs, job_id) ==
    LET got == GetJobRuns(runs, job_id, DEFAULT_LIMIT)
    IN  {got[i] : i \in 1..Len(got)}

\* C32: enable_job, disable_job and delete_job remove and alter no JobRun:
\* after delete_job(id) get_job_runs(id) returns every run recorded for id, as
\* before; enable_job and disable_job change the enabled flag of the job and
\* nothing else.
C32_HistoryKept ==
    [][\A j \in SchedJobIds :
        /\ DeleteJob(j) =>
             /\ schedRuns' = schedRuns
             /\ RunsOf(schedRuns, j) \subseteq Returned(schedRuns', j)
             /\ GetJobRuns(schedRuns', j, DEFAULT_LIMIT) = GetJobRuns(schedRuns, j, DEFAULT_LIMIT)
        /\ \A enabled \in BOOLEAN : SetEnabled(j, enabled) =>
             /\ schedRuns' = schedRuns
             /\ schedJobs'[j].enabled = enabled
             /\ schedJobs' = [schedJobs EXCEPT ![j].enabled = enabled]]_vars

\* a deleted job whose runs get_job_runs still returns
C32_Witness ==
    \E j \in DOMAIN schedJobs :
        /\ ~schedJobs[j].stored
        /\ GetJobRuns(schedRuns, j, DEFAULT_LIMIT) # << >>

\* the runs a step adds
NewRuns == DOMAIN schedRuns' \ DOMAIN schedRuns

\* C33: a job marked disabled is not run: between disable_job(id) and the
\* next enable_job(id) no new JobRun is started for id, so every step that
\* starts a run starts it for a job whose enabled flag is set.
C33_DisabledNotRun ==
    [][\A r \in NewRuns : schedJobs[schedRuns'[r].job_id].enabled]_vars

\* C34: run_job on a job whose type has no registered handler does not
\* raise: it records a FAILED run whose error names the job type, sets the
\* status of the job to FAILED and stamps last_run and next_run.
C34_NoHandlerRecorded ==
    [][\A c \in Calls, j \in StoredJobs :
        (RunJob(c, j) /\ schedJobs[j].job_type \notin Registered) =>
            /\ ~callRet'[c].raised
            /\ NewRuns # {}
            /\ \A r \in NewRuns :
                 /\ schedRuns'[r].job_id = j
                 /\ schedRuns'[r].status = "FAILED"
                 /\ schedRuns'[r].error # None
                 /\ schedRuns'[r].error[1][2] = schedJobs[j].job_type
                 /\ schedRuns'[r].completed_at = Some(now)
            /\ schedJobs'[j].status = "FAILED"
            /\ schedJobs'[j].last_run = Some(now)
            /\ schedJobs'[j].next_run = now + TicksPerHour]_vars

\* a FAILED run of a job of a type without handler
C34_Witness ==
    \E r \in DOMAIN schedRuns :
        /\ schedRuns[r].job_type \notin Registered
        /\ schedRuns[r].status = "FAILED"
        /\ schedJobs[schedRuns[r].job_id].status = "FAILED"

\* the runs of a job that are finished
FinishedRunsOf(job_id) ==
    {r \in DOMAIN schedRuns : schedRuns[r].job_id = job_id /\ schedRuns[r].completed_at # None}

PassRule(operator, current, threshold) ==
    \/ operator = "gte" /\ current >= threshold
    \/ operator = "lte" /\ current <= threshold
    \/ operator = "gt" /\ current > threshold
    \/ operator = "lt" /\ current < threshold
    \/ operator = "eq" /\ (IF current >= threshold THEN current - threshold
                                                  ELSE threshold - current) < 10

Analysed == {t \in DOMAIN tests : tests[t].statistical_analysis # None}
ChampVal(t) == tests[t].champion_metrics[1][tests[t].config.primary_metric]
ChalVal(t) == tests[t].challenger_metrics[1][tests[t].config.primary_metric]
\* |chal - champ| / champ * 100 > 1, for champ > 0
ExceedsOnePercent(t) ==
    \/ (ChalVal(t) - ChampVal(t)) * 100 > ChampVal(t)
    \/ (ChampVal(t) - ChalVal(t)) * 100 > ChampVal(t)

C37_SlotAgreesWithStatus ==
    /\ \A t \in TestIds : (activeTest = Some(t)) <=> (t \in DOMAIN tests /\ tests[t].status = "RUNNING")
    /\ (activeTest = None) <=> (RunningTests = {})

\* a test restarted after another test was ended: the slot holds the running
\* test while the ended test, once started itself, is no longer RUNNING
C37_Witness ==
    \E t, u \in DOMAIN tests :
        /\ t # u
        /\ activeTest = Some(t)
        /\ tests[t].status = "RUNNING"
        /\ tests[u].status \in {"COMPLETED", "ABORTED"}
        /\ tests[u].started_at # None

\* ---- A/B testing: routing outside a running test
\* the test a route_request call with argument test_id addresses
Target(test_id) == IF test_id # None THEN test_id ELSE activeTest
Unroutable(test_id) ==
    \/ Target(test_id) = None
    \/ Target(test_id)[1] \notin DOMAIN tests
    \/ tests[Target(test_id)[1]].status # "RUNNING"

\* C40: route_request returns "default" and changes no sample counter when
\* there is no active test, the test id is unknown or the test is not
\* RUNNING; the sample counters of a test change only while it is RUNNING and
\* never decrease.
C40_RoutesOnlyRunning ==
    [][/\ \A test_id \in {None} \cup {Some(i) : i \in TestIds}, draw \in RandomDraws :
            (RouteRequest(test_id, draw) /\ Unroutable(test_id)) =>
                /\ abLast'.out = "default"
                /\ tests' = tests
       /\ \A t \in DOMAIN tests :
            /\ tests'[t].champion_samples >= tests[t].champion_samples
            /\ tests'[t].challenger_samples >= tests[t].challenger_samples
            /\ (\/ tests'[t].champion_samples # tests[t].champion_samples
                \/ tests'[t].challenger_samples # tests[t].challenger_samples)
                  => tests[t].status = "RUNNING"]_vars

\* a request addressed to an ended test that had collected samples, answered
\* with "default"
C40_Witness ==
    /\ abLast.op = "route_request"
    /\ abLast.out = "default"
    /\ abLast.id # None
    /\ abLast.id[1] \in DOMAIN tests
    /\ tests[abLast.id[1]].status \in {"COMPLETED", "ABORTED"}
    /\ tests[abLast.id[1]].champion_samples + tests[abLast.id[1]].challenger_samples > 0

\* ---- alerts: deduplication and the status
\* the stored alerts with the key of data that are ACTIVE
ActiveSameKey(data) == {a \in DOMAIN alerts : SameKey(alerts[a], data) /\ alerts[a].status = "ACTIVE"}

\* C38: deduplication matches only ACTIVE alerts: when the earlier alert with
\* the same key has been acknowledged or resolved, a create_alert inside the
\* window stores a new ACTIVE alert; so any two distinct ACTIVE alerts with
\* the same key were created at least one deduplication window apart.
C38_OnlyActiveDeduplicates ==
    [][/\ \A c \in Callers : IsCreateAlert(c) =>
            LET data == alertData[c][1]
            IN  (RecentSameKey(data) # {} /\ ActiveSameKey(data) = {}) => StoredNew(c, data)
       /\ \A a, b \in DOMAIN alerts' :
            (/\ a # b
             /\ SameKey(alerts'[a], alerts'[b])
             /\ alerts'[a].status = "ACTIVE"
             /\ alerts'[b].status = "ACTIVE")
                => Distance(alerts'[a].created_at, alerts'[b].created_at) >= DedupWindow]_vars

\* an ACTIVE alert stored inside the window of an acknowledged or resolved
\* alert with the same key
C38_Witness ==
    \E a, b \in DOMAIN alerts :
        /\ a # b
        /\ SameKey(alerts[a], alerts[b])
        /\ alerts[a].status \in {"ACKNOWLEDGED", "RESOLVED"}
        /\ alerts[b].status = "ACTIVE"
        /\ Distance(alerts[a].created_at, alerts[b].created_at) < DedupWindow

====
